---- MODULE Spec2Model ----
(***************************************************************************)
(* Workspace operator: the reconcile state machine                         *)
(* (internal/controller/state_machine.go) and the SSM remote-access        *)
(* provisioner (SSMRemoteAccessStrategy.SetupContainers).                  *)
(*                                                                         *)
(* Time is counted in whole minutes.  A call made by a handler is logged   *)
(* as a record [op, kind, arg]; the log of the last reconcile tick and the *)
(* log of each SetupContainers invocation are part of the state, so that   *)
(* call order and call absence are state predicates.                       *)
(***************************************************************************)
EXTENDS Integers, Sequences, FiniteSets, Bags, TLC

(* ------------------------------ bounds --------------------------------- *)
\* largest number of container restarts of the pod
MaxRestarts == 2
\* largest number of status writes started on the Workspace
MaxWrites == 3
\* the attempts RetryOnConflict makes before it gives up
MaxAttempts == 2
\* largest length of the primary container's env list before the merge
MaxEnv == 3
\* largest number of env templates an access strategy declares
MaxMergeEnv == 2
\* deployment modifications: entries of each list an access strategy adds
MaxMods == 2
\* largest number of fields in the body the idle endpoint answers with
MaxFields == 2
\* largest number of activations, and of managed instances, of the pod
MaxRegistrations == 4
\* SetupContainers: activations of the pod above which no further call starts
MaxActivations == 2
\* latest instant at which a reconcile tick runs
MaxTime == 6
\* largest violation count a template validation reports
MaxViolations == 2
\* clock range and timeout range of the idle-arithmetic specification
MaxIdleTime == 11
MaxTimeoutMinutes == 6

(* --------------------------- program constants ------------------------- *)
\* time.Minute, in model time units
Minute == 1
\* idle-poll cadence (default 5 minutes), in model time units
IdleCheckInterval == 5
\* ctrl.Result{RequeueAfter: d}: the delay by name; ctrl.Result{} and
\* ctrl.Result{RequeueAfter: 0} are the same value
NoRequeue == "0"
PollRequeueDelay == "PollRequeueDelay"
LongRequeueDelay == "LongRequeueDelay"
IdleRequeueDelay == "IdleCheckInterval"
DefaultDesiredStatus == "Running"
NoError == "nil"

(* ------------------------------ call log ------------------------------- *)
Call(op) == [op |-> op, kind |-> "", arg |-> 0]
Event(kind, reason, arg) == [op |-> "Event:" \o reason, kind |-> kind, arg |-> arg]
Called(log, op) == \E i \in 1..Len(log) : log[i].op = op
\* index of the first call of op in log, 0 when it was not called
FirstIndex(log, op) ==
    IF Called(log, op)
    THEN CHOOSE i \in 1..Len(log) :
            /\ log[i].op = op
            /\ \A j \in 1..(i - 1) : log[j].op # op
    ELSE 0
Before(log, a, b) ==
    /\ Called(log, a)
    /\ Called(log, b)
    /\ FirstIndex(log, a) < FirstIndex(log, b)

VARIABLES
    ws,         \* the Workspace object as stored in the cluster
    cluster,    \* the backing resources: deployment, service, access resources
    last,       \* what the ReconcileDesiredState tick that just returned did
                \* and returned; cleared by the next step of the environment
    idleIn,     \* idle arithmetic: the inputs of shouldStopDueToIdle
    idleOut,    \* idle arithmetic: its result ("unset" before the call)
    ssmClient,  \* SetupContainers: whether the strategy holds an SSM client
    pod,        \* SetupContainers: the pod's container statuses in the cluster
    stateFile,  \* SetupContainers: the registration state file on the shared volume
    inv,        \* SetupContainers: the bag of the calls in flight, each with
                \* its position, its locals and the calls it made so far
    returned,   \* SetupContainers: the invocation that returned in the last
                \* step, with its return value
    registered, \* SetupContainers, one call at a time: whether the sidecar
                \* process now running has completed its registration
    listening,  \* SetupContainers, one call at a time: whether the listener
                \* was started in the workspace container now running
    wsStatus,   \* status writers: the Workspace status in the cluster, its
                \* resourceVersion and Status.ExternalAccessResources
    writers,    \* status writers: each writer's position, snapshot and result
    upserted,   \* status writers: the writes started so far and, per key,
                \* the ResourceID of the last upsert that succeeded
    broker,     \* cleanup: what the broker holds for the pod, and what the
                \* last CleanupSSMManagedNodes call did and returned
    idleProbe,  \* idle probe: the inputs of CheckWorkspaceIdle and its result
    envMerge,   \* env merge: the primary container's env, the access
                \* strategy's env templates, and the result of the merge
    execs,      \* exec calls: two runs of SetupContainers that differ in the
                \* activation credentials only, and the exec calls of each
    admission,  \* pod exec webhook: one admission request and its response
    connection, \* extension API: one Create of a WorkspaceConnection, the
                \* calls it made and what it returned
    route       \* extension API: one request under the namespaced path
                \* prefix and where it ended

smVars == <<ws, cluster, last>>
idleVars == <<idleIn, idleOut>>
setupVars == <<ssmClient, pod, stateFile, inv, returned>>
retryVars == <<registered, listening>>
statusVars == <<wsStatus, writers, upserted>>
\* the variables of the specifications of single functions
apiVars == <<admission, connection, route>>
fnVars == <<broker, idleProbe, envMerge, execs, apiVars>>
vars ==
    <<ws, cluster, last, idleIn, idleOut, ssmClient, pod, stateFile, inv, returned,
      registered, listening, wsStatus, writers, upserted, broker, idleProbe,
      envMerge, execs, admission, connection, route>>

(* ----------------------- the resource collaborators -------------------- *)
\* The object EnsureDeploymentDeleted / EnsureServiceDeleted hands back:
\* "nil" when the resource is gone, "deleting" when it carries a deletion
\* timestamp, "live" when the delete was only just requested and the object
\* returned does not show it yet (fresh = FALSE).
DeletedObject(res, fresh) ==
    CASE res = "absent" -> "nil"
      [] res = "deleting" -> "deleting"
      [] OTHER -> IF fresh THEN "deleting" ELSE "live"
AfterDeleteRequest(res) == IF res = "absent" THEN "absent" ELSE "deleting"
IsMissingOrDeleting(obj) == obj \in {"nil", "deleting"}
AreAccessResourcesDeleted(access) == access = "absent"
AfterEnsureExists(res) == IF res = "absent" THEN "pending" ELSE res

(* ------------- the specifications of single functions ----------------- *)
\* nothing registered at the broker for the pod, no cleanup call made
NoBroker ==
    [instances |-> 0, activations |-> 0, called |-> FALSE, instancesOk |-> TRUE,
     activationsOk |-> TRUE, log |-> <<>>, err |-> "nil"]
\* no probe made
NoProbe ==
    [podFound |-> TRUE, clientset |-> TRUE, execOk |-> TRUE, status |-> "",
     body |-> <<>>, json |-> TRUE, done |-> FALSE, lastActivity |-> "", err |-> "nil",
     errBody |-> <<>>]
\* no merge made
NoExecs ==
    [idA |-> "", codeA |-> "", idB |-> "", codeB |-> "", region |-> "",
     outcome |-> "ok", cleanupNeeded |-> FALSE, done |-> FALSE,
     runA |-> <<>>, runB |-> <<>>]
\* Spec.DeploymentSpecModifications = nil
NoMods ==
    [nil |-> TRUE, podSpecNil |-> TRUE, primaryNil |-> TRUE, volumes |-> <<>>,
     volumeMounts |-> <<>>, additionalContainers |-> <<>>]
\* a pod template with the primary container alone
BarePodSpec == [volumes |-> <<>>, volumeMounts |-> <<>>, containers |-> <<"main">>]
\* no admission request handled
NoAdmission ==
    [user |-> <<>>, controllerNamespace |-> "", get |-> "found", labels |-> {},
     done |-> FALSE, log |-> <<>>, allowed |-> FALSE, result |-> ""]
\* no Create made
NoConnection ==
    [obj |-> "WorkspaceConnection", valid |-> TRUE, type |-> "web-ui",
     clusterId |-> TRUE, userInContext |-> TRUE,
     access |-> [err |-> FALSE, notFound |-> FALSE, allowed |-> TRUE],
     urlOk |-> TRUE, done |-> FALSE, log |-> <<>>, user |-> "", url |-> "", err |-> "nil"]
\* no request routed
NoRoute ==
    [namespace |-> "", tail |-> <<>>, namespaceOk |-> TRUE, done |-> FALSE,
     handler |-> "", status |-> ""]
NoMerge ==
    [deployment |-> TRUE, strategy |-> TRUE, env |-> <<>>, mergeEnv |-> <<>>,
     volumes |-> <<>>, volumeMounts |-> <<>>, containers |-> <<"main">>,
     mods |-> NoMods,
     done |-> FALSE, result |-> <<>>, err |-> "nil", out |-> BarePodSpec,
     again |-> [done |-> FALSE, env |-> <<>>, out |-> BarePodSpec, err |-> "nil"]]

(* --------------- remote access: addResourceToStatus -------------------- *)
\* The writers of one Workspace's status that can run at the same time.
Writers == {"w1", "w2"}
ResourceTypes == {"SSMActivation", "SSMManagedInstance"}
PodUIDs == {"podA", "podB"}
\* the key of an entry of Status.ExternalAccessResources
ResourceKeys == {"aws-ssm"} \X ResourceTypes \X PodUIDs
KeyOf(r) == <<r.provider, r.resourceType, r.podUid>>

\* ExternalAccessResourceStatus of the given key with the given ResourceID
ExternalAccessResource(key, id) ==
    [provider |-> key[1], resourceType |-> key[2], podUid |-> key[3],
     resourceID |-> id]

\* the status of a Workspace for which nothing has been registered
NoStatus == [resourceVersion |-> 0, externalAccessResources |-> <<>>]
IdleWriter ==
    [pc |-> "idle", kind |-> "", new |-> ExternalAccessResource(<<"", "", "">>, 0),
     current |-> NoStatus, attempts |-> 0, result |-> ""]
NoUpserts == [started |-> 0, last |-> [k \in ResourceKeys |-> 0]]

\* the mutation of addResourceToStatus that always appends
UpsertAppending(resources, newResource) == Append(resources, newResource)

\* The mutation of addResourceToStatus: the first entry of the provider
\* "aws-ssm" with newResource's type and podUid is replaced; without such an
\* entry newResource is appended.
Upsert(resources, newResource) ==
    LET matches == {i \in 1..Len(resources) :
                       /\ resources[i].provider = "aws-ssm"
                       /\ resources[i].resourceType = newResource.resourceType
                       /\ resources[i].podUid = newResource.podUid}
    IN IF matches = {}
       THEN Append(resources, newResource)
       ELSE LET first == CHOOSE i \in matches : \A j \in matches : i <= j
            IN [resources EXCEPT ![first] = newResource]

\* Status().Update of an object read at resourceVersion read: a conflict
\* when the stored object has moved on
IsConflict(read, stored) == read # stored

\* addResourceToStatus is called for newResource
BeginAddResourceToStatus(w) ==
    /\ writers[w].pc = "idle"
    /\ upserted.started < MaxWrites
    /\ \E key \in ResourceKeys :
          writers' = [writers EXCEPT ![w] =
              [IdleWriter EXCEPT
                  !.pc = "get", !.kind = "upsert",
                  !.new = ExternalAccessResource(key, upserted.started + 1)]]
    /\ upserted' = [upserted EXCEPT !.started = @ + 1]
    /\ UNCHANGED wsStatus

\* another writer of the same status (a phase or condition update) begins
\* its own read, modify, update
BeginOtherStatusWrite(w) ==
    /\ writers[w].pc = "idle"
    /\ upserted.started < MaxWrites
    /\ writers' = [writers EXCEPT ![w] =
          [IdleWriter EXCEPT !.pc = "get", !.kind = "other"]]
    /\ upserted' = [upserted EXCEPT !.started = @ + 1]
    /\ UNCHANGED wsStatus

\* "Re-fetch workspace to get latest version"; an error of Get is not a
\* conflict and is returned at once
GetCurrent(w) ==
    /\ writers[w].pc = "get"
    /\ \E getOk \in BOOLEAN :
          writers' = [writers EXCEPT ![w] =
              IF getOk
              THEN [@ EXCEPT !.pc = "update", !.current = wsStatus]
              ELSE [@ EXCEPT !.pc = "idle", !.current = NoStatus,
                             !.result = "error"]]
    /\ UNCHANGED <<wsStatus, upserted>>

\* the mutation of the fetched object and Status().Update; RetryOnConflict
\* runs the closure again on a conflict until its steps are used up
MutateAndUpdate(w) ==
    /\ writers[w].pc = "update"
    /\ LET me == writers[w]
           mutated == IF me.kind = "upsert"
                      THEN Upsert(me.current.externalAccessResources, me.new)
                      ELSE me.current.externalAccessResources
       IN IF IsConflict(me.current.resourceVersion, wsStatus.resourceVersion)
          THEN /\ writers' = [writers EXCEPT ![w] =
                     IF me.attempts + 1 < MaxAttempts
                     THEN [me EXCEPT !.pc = "get", !.attempts = @ + 1]
                     ELSE [me EXCEPT !.pc = "idle", !.current = NoStatus,
                                     !.attempts = @ + 1, !.result = "conflict"]]
               /\ UNCHANGED <<wsStatus, upserted>>
          ELSE /\ wsStatus' = [resourceVersion |-> wsStatus.resourceVersion + 1,
                               externalAccessResources |-> mutated]
               /\ writers' = [writers EXCEPT ![w] =
                     [me EXCEPT !.pc = "idle", !.current = NoStatus,
                                !.result = "ok"]]
               /\ upserted' = IF me.kind = "upsert"
                              THEN [upserted EXCEPT
                                       !.last[KeyOf(me.new)] = me.new.resourceID]
                              ELSE upserted

(* ------------------ remote access: SetupContainers --------------------- *)
NoSetupError == "nil"

\* a pod just created: no container runs yet, nothing restarted
NewPod ==
    [sidecar |-> [running |-> FALSE, restartCount |-> 0],
     workspace |-> [running |-> FALSE, restartCount |-> 0]]

\* the state file: absent (fresh volume), corrupt, or a RegistrationState
NoStateFile ==
    [kind |-> "absent", sidecarRestartCount |-> 0, workspaceRestartCount |-> 0,
     setupInProgress |-> FALSE]
CorruptStateFile == [NoStateFile EXCEPT !.kind = "corrupt"]
RegistrationState(sidecarCount, workspaceCount, inProgress) ==
    [kind |-> "state", sidecarRestartCount |-> sidecarCount,
     workspaceRestartCount |-> workspaceCount, setupInProgress |-> inProgress]

\* The callers that can be inside SetupContainers for the pod at the same
\* time.  They run the same code, so inv is the bag of their local states.
Invocations == {1, 2}

\* the locals of a call that has just entered: pc is its position in
\* SetupContainers, readFailed whether its read of the state file failed
\* though the file was there
NotInvoked ==
    [pc |-> "idle", pod |-> NewPod, read |-> NoStateFile, readFailed |-> FALSE,
     needSidecarSetup |-> FALSE, needWorkspaceSetup |-> FALSE, needCleanup |-> FALSE,
     log |-> <<>>]

\* nothing returned in the last step
NoReturn ==
    [done |-> FALSE, ret |-> NoSetupError, inv |-> NotInvoked, finalWrite |-> "none"]

\* a call returns err; call holds its locals and the calls it made
Return(err, call) ==
    [done |-> TRUE, ret |-> err, inv |-> call, finalWrite |-> "none"]

\* the calls in flight, and the bag after one of them moved on or returned
InFlight == BagToSet(inv)
Moved(call, next) == (inv (-) SetToBag({call})) (+) SetToBag({next})
Left(call) == inv (-) SetToBag({call})

\* isContainerRunning
IsContainerRunning(p, container) == p[container].running

\* readRegistrationState that reports a failing exec as an error
ReadRegistrationStateFailingLoudly(file, execOk) ==
    IF file.kind = "absent" THEN NoStateFile
    ELSE IF ~execOk \/ file.kind = "corrupt" THEN CorruptStateFile
    ELSE file

\* readRegistrationState: what the invocation gets from `cat` on the state
\* file.  A failing exec (the file is missing, or the exec itself failed)
\* gives (nil, nil); a file that does not parse gives (nil, err).
ReadRegistrationState(file, execOk) ==
    IF ~execOk \/ file.kind = "absent" THEN NoStateFile
    ELSE IF file.kind = "corrupt" THEN CorruptStateFile
    ELSE file

\* the decision of SetupContainers that does not look at SetupInProgress
DecideSetupIgnoringInProgress(state, currentSidecarRestarts, currentWorkspaceRestarts) ==
    IF state.kind # "state"
    THEN [do |-> "setup", needSidecarSetup |-> TRUE, needWorkspaceSetup |-> TRUE,
          needCleanup |-> state.kind = "corrupt"]
    ELSE LET sidecarRestarted == currentSidecarRestarts > state.sidecarRestartCount
             workspaceRestarted == currentWorkspaceRestarts > state.workspaceRestartCount
         IN IF ~sidecarRestarted /\ ~workspaceRestarted
            THEN [do |-> "return", needSidecarSetup |-> FALSE,
                  needWorkspaceSetup |-> FALSE, needCleanup |-> FALSE]
            ELSE [do |-> "setup", needSidecarSetup |-> sidecarRestarted,
                  needWorkspaceSetup |-> workspaceRestarted,
                  needCleanup |-> sidecarRestarted]

\* the decision of SetupContainers that takes an in-progress marker written
\* before a restart as stale
DecideSetupDroppingStaleMarker(state, currentSidecarRestarts, currentWorkspaceRestarts) ==
    LET sidecarRestarted ==
            state.kind = "state" /\ currentSidecarRestarts > state.sidecarRestartCount
        workspaceRestarted ==
            state.kind = "state" /\ currentWorkspaceRestarts > state.workspaceRestartCount
    IN IF state.kind # "state"
       THEN [do |-> "setup", needSidecarSetup |-> TRUE, needWorkspaceSetup |-> TRUE,
             needCleanup |-> state.kind = "corrupt"]
       ELSE IF ~sidecarRestarted /\ ~workspaceRestarted
       THEN [do |-> "return", needSidecarSetup |-> FALSE,
             needWorkspaceSetup |-> FALSE, needCleanup |-> FALSE]
       ELSE [do |-> "setup", needSidecarSetup |-> sidecarRestarted,
             needWorkspaceSetup |-> workspaceRestarted,
             needCleanup |-> sidecarRestarted]

\* the decision of SetupContainers that cleans up on any restart
DecideSetupCleanupOnAnyRestart(state, currentSidecarRestarts, currentWorkspaceRestarts) ==
    IF state.kind = "state" /\ state.setupInProgress
    THEN [do |-> "return", needSidecarSetup |-> FALSE, needWorkspaceSetup |-> FALSE,
          needCleanup |-> FALSE]
    ELSE IF state.kind # "state"
    THEN [do |-> "setup", needSidecarSetup |-> TRUE, needWorkspaceSetup |-> TRUE,
          needCleanup |-> state.kind = "corrupt"]
    ELSE LET sidecarRestarted == currentSidecarRestarts > state.sidecarRestartCount
             workspaceRestarted == currentWorkspaceRestarts > state.workspaceRestartCount
         IN IF ~sidecarRestarted /\ ~workspaceRestarted
            THEN [do |-> "return", needSidecarSetup |-> FALSE,
                  needWorkspaceSetup |-> FALSE, needCleanup |-> FALSE]
            ELSE [do |-> "setup", needSidecarSetup |-> TRUE,
                  needWorkspaceSetup |-> workspaceRestarted,
                  needCleanup |-> TRUE]

\* SetupContainers, from the state read to "Determine what needs to be
\* setup": return nil (do = "return") or go on to setup with the three flags
DecideSetup(state, currentSidecarRestarts, currentWorkspaceRestarts) ==
    IF state.kind = "state" /\ state.setupInProgress
    THEN [do |-> "return", needSidecarSetup |-> FALSE, needWorkspaceSetup |-> FALSE,
          needCleanup |-> FALSE]
    ELSE IF state.kind # "state"
    THEN [do |-> "setup", needSidecarSetup |-> TRUE, needWorkspaceSetup |-> TRUE,
          needCleanup |-> state.kind = "corrupt"]
    ELSE LET sidecarRestarted == currentSidecarRestarts > state.sidecarRestartCount
             workspaceRestarted == currentWorkspaceRestarts > state.workspaceRestartCount
         IN IF ~sidecarRestarted /\ ~workspaceRestarted
            THEN [do |-> "return", needSidecarSetup |-> FALSE,
                  needWorkspaceSetup |-> FALSE, needCleanup |-> FALSE]
            ELSE [do |-> "setup", needSidecarSetup |-> sidecarRestarted,
                  needWorkspaceSetup |-> workspaceRestarted,
                  needCleanup |-> sidecarRestarted]

\* CleanupSSMManagedNodes that gives up when the first cleanup fails
CleanupSSMManagedNodesStoppingEarly(client, instancesOk, activationsOk) ==
    IF ~client
    THEN [log |-> <<>>, err |-> "SSM client not available"]
    ELSE IF ~instancesOk
    THEN [log |-> <<Call("CleanupManagedInstancesByPodUID")>>,
          err |-> "failed to cleanup managed instances"]
    ELSE [log |-> <<Call("CleanupManagedInstancesByPodUID"),
                    Call("CleanupActivationsByPodUID")>>,
          err |-> IF activationsOk THEN NoSetupError
                  ELSE "failed to cleanup activations"]

\* CleanupSSMManagedNodes: without a client an error and no call; otherwise
\* the managed instances of the pod are deregistered, then its activations
\* are deleted whatever the first call returned, and the error is that of
\* the activation cleanup
CleanupSSMManagedNodes(client, instancesOk, activationsOk) ==
    IF ~client
    THEN [log |-> <<>>, err |-> "SSM client not available"]
    ELSE [log |-> <<Call("CleanupManagedInstancesByPodUID"),
                    Call("CleanupActivationsByPodUID")>>,
          err |-> IF activationsOk THEN NoSetupError
                  ELSE "failed to cleanup activations"]

\* the calls of a cleanup made from setup, where a client is held; they do
\* not depend on what the broker answers
CleanupCalls == CleanupSSMManagedNodes(TRUE, TRUE, TRUE).log

\* setupSidecarContainer's steps with the activation recorded in the status
\* only once the registration went through
RegistrationStepsStatusLate(outcome) ==
    CASE outcome \in {"noRole", "noClusterARN"} ->
            [log |-> <<>>, err |-> "failed to create SSM activation"]
      [] outcome = "createFailed" ->
            [log |-> <<Call("CreateActivation")>>,
             err |-> "failed to create SSM activation"]
      [] outcome = "registerFailed" ->
            [log |-> <<Call("CreateActivation"), Call("Exec:register")>>,
             err |-> "failed to execute SSM registration script"]
      [] outcome = "noInstanceID" ->
            [log |-> <<Call("CreateActivation"), Call("Exec:register")>>,
             err |-> "failed to extract managed instance ID"]
      [] outcome = "markerFailed" ->
            [log |-> <<Call("CreateActivation"), Call("Exec:register"),
                       Call("Status:SSMActivation"), Call("Status:SSMManagedInstance"),
                       Call("Exec:marker")>>,
             err |-> "failed to create marker file"]
      [] OTHER ->
            [log |-> <<Call("CreateActivation"), Call("Exec:register"),
                       Call("Status:SSMActivation"), Call("Status:SSMManagedInstance"),
                       Call("Exec:marker")>>,
             err |-> NoSetupError]

\* The calls of setupSidecarContainer after the cleanup.  outcome names the
\* first step that fails ("ok" when none does).
RegistrationSteps(outcome) ==
    CASE outcome \in {"noRole", "noClusterARN"} ->
            [log |-> <<>>, err |-> "failed to create SSM activation"]
      [] outcome = "createFailed" ->
            [log |-> <<Call("CreateActivation")>>,
             err |-> "failed to create SSM activation"]
      [] outcome = "registerFailed" ->
            [log |-> <<Call("CreateActivation"), Call("Status:SSMActivation"),
                       Call("Exec:register")>>,
             err |-> "failed to execute SSM registration script"]
      [] outcome = "noInstanceID" ->
            [log |-> <<Call("CreateActivation"), Call("Status:SSMActivation"),
                       Call("Exec:register")>>,
             err |-> "failed to extract managed instance ID"]
      [] outcome = "markerFailed" ->
            [log |-> <<Call("CreateActivation"), Call("Status:SSMActivation"),
                       Call("Exec:register"), Call("Status:SSMManagedInstance"),
                       Call("Exec:marker")>>,
             err |-> "failed to create marker file"]
      [] OTHER ->
            [log |-> <<Call("CreateActivation"), Call("Status:SSMActivation"),
                       Call("Exec:register"), Call("Status:SSMManagedInstance"),
                       Call("Exec:marker")>>,
             err |-> NoSetupError]

\* setupSidecarContainer that registers first and cleans up afterwards
SetupSidecarCleanupLast(cleanupNeeded, outcome) ==
    LET r == RegistrationSteps(outcome)
    IN [log |-> IF cleanupNeeded THEN r.log \o CleanupCalls ELSE r.log,
        err |-> r.err]

\* setupSidecarContainer: the cleanup's error is logged and dropped, so the
\* outcome of the cleanup is not an input
SetupSidecarContainer(cleanupNeeded, outcome) ==
    LET r == RegistrationSteps(outcome)
    IN [log |-> IF cleanupNeeded THEN CleanupCalls \o r.log ELSE r.log,
        err |-> r.err]

\* setupWorkspaceContainer on the pod the invocation was given
SetupWorkspaceContainer(p, execOk) ==
    IF ~IsContainerRunning(p, "workspace")
    THEN [log |-> <<>>, err |-> NoSetupError]
    ELSE [log |-> <<Call("Exec:startServer")>>,
          err |-> IF execOk THEN NoSetupError
                  ELSE "failed to start remote access server"]

SidecarOutcomes ==
    {"noRole", "noClusterARN", "createFailed", "registerFailed", "noInstanceID",
     "markerFailed", "ok"}

\* the outcomes of the calls a setup makes: of the sidecar's steps when the
\* sidecar is set up, of the listener start when it is reached
SetupOutcomes(call) ==
    {x \in (IF call.needSidecarSetup THEN SidecarOutcomes ELSE {"ok"}) \X BOOLEAN :
        x[2] = FALSE => /\ x[1] = "ok"
                        /\ call.needWorkspaceSetup
                        /\ IsContainerRunning(call.pod, "workspace")}

\* SetupContainers is entered with the pod as the caller saw it; without
\* an SSM client or a running sidecar it returns at once
StartSetupContainers ==
    /\ BagCardinality(inv) < Cardinality(Invocations)
    /\ LET call == [NotInvoked EXCEPT !.pod = pod]
       IN IF ~ssmClient
          THEN /\ returned' = Return("SSM client not available", call)
               /\ UNCHANGED inv
          ELSE IF ~IsContainerRunning(pod, "sidecar")
          THEN /\ returned' = Return(NoSetupError, call)
               /\ UNCHANGED inv
          ELSE /\ returned' = NoReturn
               /\ inv' = inv (+) SetToBag({[call EXCEPT !.pc = "read"]})
    /\ UNCHANGED <<ssmClient, pod, stateFile>>

\* the state read that backs off while another call is past its own read
ReadStateAndDecideUnderLock(c) ==
    IF \E other \in InFlight : other.pc \in {"mark", "setup"}
    THEN /\ c.pc = "read"
         /\ returned' = Return(NoSetupError,
                               [c EXCEPT !.log = Append(@, Call("Exec:readState"))])
         /\ inv' = Left(c)
         /\ UNCHANGED <<ssmClient, pod, stateFile>>
    ELSE /\ c.pc = "read"
         /\ \E execOk \in BOOLEAN :
             LET state == ReadRegistrationState(stateFile, execOk)
                 d == DecideSetup(state, c.pod.sidecar.restartCount,
                                  c.pod.workspace.restartCount)
                 call == [c EXCEPT !.read = state,
                                   !.readFailed = (~execOk /\ stateFile.kind # "absent"),
                                   !.needSidecarSetup = d.needSidecarSetup,
                                   !.needWorkspaceSetup = d.needWorkspaceSetup,
                                   !.needCleanup = d.needCleanup,
                                   !.log = Append(@, Call("Exec:readState"))]
             IN IF d.do = "return"
                THEN /\ returned' = Return(NoSetupError, call)
                     /\ inv' = Left(c)
                ELSE /\ returned' = NoReturn
                     /\ inv' = Moved(c, [call EXCEPT !.pc = "mark"])
         /\ UNCHANGED <<ssmClient, pod, stateFile>>

\* after the random delay: the state read and the decision
ReadStateAndDecide(c) ==
    /\ c.pc = "read"
    /\ \E execOk \in BOOLEAN :
        LET state == ReadRegistrationState(stateFile, execOk)
            d == DecideSetup(state, c.pod.sidecar.restartCount,
                             c.pod.workspace.restartCount)
            call == [c EXCEPT !.read = state,
                              !.readFailed = (~execOk /\ stateFile.kind # "absent"),
                              !.needSidecarSetup = d.needSidecarSetup,
                              !.needWorkspaceSetup = d.needWorkspaceSetup,
                              !.needCleanup = d.needCleanup,
                              !.log = Append(@, Call("Exec:readState"))]
        IN IF d.do = "return"
           THEN /\ returned' = Return(NoSetupError, call)
                /\ inv' = Left(c)
           ELSE /\ returned' = NoReturn
                /\ inv' = Moved(c, [call EXCEPT !.pc = "mark"])
    /\ UNCHANGED <<ssmClient, pod, stateFile>>

\* writeRegistrationState as a call in the log, with which write it is
WriteStateCall(which) == [op |-> "Exec:writeState", kind |-> which, arg |-> 0]

\* "Mark setup as in progress": a failed write is logged and setup goes on
WriteInProgressState(c) ==
    /\ c.pc = "mark"
    /\ \E execOk \in BOOLEAN :
          /\ stateFile' = IF execOk
                          THEN RegistrationState(c.pod.sidecar.restartCount,
                                                 c.pod.workspace.restartCount, TRUE)
                          ELSE stateFile
          /\ inv' = Moved(c, [c EXCEPT
                                !.pc = "setup",
                                !.log = Append(@, WriteStateCall("inProgress"))])
    /\ returned' = NoReturn
    /\ UNCHANGED <<ssmClient, pod>>

\* "Setup containers as needed": the sidecar when chosen, then the workspace
\* container when chosen and the sidecar setup did not fail
SetupContainersAsNeeded(c, x) ==
    LET none == [log |-> <<>>, err |-> NoSetupError]
        sc == IF c.needSidecarSetup
              THEN SetupSidecarContainer(c.needCleanup, x[1])
              ELSE none
        wc == IF sc.err = NoSetupError /\ c.needWorkspaceSetup
              THEN SetupWorkspaceContainer(c.pod, x[2])
              ELSE none
    IN [log |-> sc.log \o wc.log,
        err |-> IF sc.err # NoSetupError THEN sc.err ELSE wc.err]

\* the end of SetupContainers that leaves the marker when setup failed
MarkSetupCompleteOnSuccess(c, setupErr, file, writeOk) ==
    IF setupErr # NoSetupError
    THEN [log |-> <<>>, file |-> file, ret |-> setupErr, finalWrite |-> "none"]
    ELSE [log |-> <<WriteStateCall("final")>>,
          finalWrite |-> IF writeOk THEN "ok" ELSE "failed",
          file |-> IF writeOk
                   THEN RegistrationState(c.pod.sidecar.restartCount,
                                          c.pod.workspace.restartCount, FALSE)
                   ELSE file,
          ret |-> setupErr]

\* "Mark setup as complete (or failed)": the final state is written with
\* the current counts and the flag cleared, a failed write is logged, and
\* the setup error is what is returned
MarkSetupComplete(c, setupErr, file, writeOk) ==
    [log |-> <<WriteStateCall("final")>>,
     finalWrite |-> IF writeOk THEN "ok" ELSE "failed",
     file |-> IF writeOk
              THEN RegistrationState(c.pod.sidecar.restartCount,
                                     c.pod.workspace.restartCount, FALSE)
              ELSE file,
     ret |-> setupErr]

\* "Setup containers as needed", "Mark setup as complete (or failed)" and
\* the return of the setup error.  The setup calls touch neither the state
\* file nor the pod, so they are taken together with the final write.
SetupAndMarkComplete(c) ==
    /\ c.pc = "setup"
    /\ \E x \in SetupOutcomes(c), writeOk \in BOOLEAN :
        LET setup == SetupContainersAsNeeded(c, x)
            end == MarkSetupComplete(c, setup.err, stateFile, writeOk)
            call == [c EXCEPT !.pc = "final", !.log = @ \o setup.log \o end.log]
        IN /\ stateFile' = end.file
           /\ returned' = [Return(end.ret, call) EXCEPT !.finalWrite = end.finalWrite]
    /\ inv' = Left(c)
    /\ UNCHANGED <<ssmClient, pod>>

\* a container of the pod starts
ContainerStarts ==
    /\ \E c \in {"sidecar", "workspace"} :
          /\ ~pod[c].running
          /\ pod' = [pod EXCEPT ![c].running = TRUE]
    /\ returned' = NoReturn
    /\ UNCHANGED <<ssmClient, stateFile, inv>>

\* a container of the pod exits; the kubelet will restart it
ContainerRestarts ==
    /\ \E c \in {"sidecar", "workspace"} :
          /\ pod[c].running
          /\ pod.sidecar.restartCount + pod.workspace.restartCount < MaxRestarts
          /\ pod' = [pod EXCEPT ![c].running = FALSE, ![c].restartCount = @ + 1]
    /\ returned' = NoReturn
    /\ UNCHANGED <<ssmClient, stateFile, inv>>

\* the state file is damaged on the volume
StateFileCorrupted ==
    /\ stateFile.kind = "state"
    /\ stateFile' = CorruptStateFile
    /\ returned' = NoReturn
    /\ UNCHANGED <<ssmClient, pod, inv>>

SetupInit ==
    /\ ssmClient \in BOOLEAN
    /\ pod = NewPod
    /\ stateFile = NoStateFile
    /\ inv = EmptyBag
    /\ returned = NoReturn
    /\ registered = FALSE
    /\ listening = FALSE
    /\ execs = NoExecs
    /\ admission = NoAdmission
    /\ connection = NoConnection
    /\ route = NoRoute
    /\ wsStatus = NoStatus
    /\ writers = [w \in Writers |-> IdleWriter]
    /\ upserted = NoUpserts
    /\ broker = NoBroker
    /\ idleProbe = NoProbe
    /\ envMerge = NoMerge
    /\ ws = [desired |-> "Running", templateRef |-> FALSE, idle |-> "nil",
             timeout |-> 3, lastActivity |-> {}, lastChecked |-> {}]
    /\ cluster = [deployment |-> "available", service |-> "present", access |-> "absent"]
    /\ last = [log |-> <<>>, requeue |-> "0", err |-> "nil",
               obs |-> [path |-> ""], desired |-> "", at |-> 0]
    /\ idleIn = [lastActivity |-> {}, timeoutMinutes |-> 0, now |-> 0]
    /\ idleOut = "unset"

SetupNext ==
    \/ StartSetupContainers /\ UNCHANGED <<smVars, idleVars, retryVars, statusVars, fnVars>>
    \/ \E c \in InFlight : ReadStateAndDecide(c) /\ UNCHANGED <<smVars, idleVars, retryVars, statusVars, fnVars>>
    \/ \E c \in InFlight : WriteInProgressState(c) /\ UNCHANGED <<smVars, idleVars, retryVars, statusVars, fnVars>>
    \/ \E c \in InFlight : SetupAndMarkComplete(c) /\ UNCHANGED <<smVars, idleVars, retryVars, statusVars, fnVars>>
    \/ ContainerStarts /\ UNCHANGED <<smVars, idleVars, retryVars, statusVars, fnVars>>
    \/ ContainerRestarts /\ UNCHANGED <<smVars, idleVars, retryVars, statusVars, fnVars>>
    \/ StateFileCorrupted /\ UNCHANGED <<smVars, idleVars, retryVars, statusVars, fnVars>>

SpecSetup == SetupInit /\ [][SetupNext]_vars

(* -------------- SetupContainers, one invocation at a time -------------- *)
\* The call that returned set the sidecar up: setupSidecarContainer was
\* chosen and returned nil (what failed, if anything, was the listener).
SidecarSetupSucceeded(r) ==
    /\ r.done
    /\ r.inv.pc = "final"
    /\ r.inv.needSidecarSetup
    /\ r.ret \in {NoSetupError, "failed to start remote access server"}

\* The call that returned started the listener: the exec of the startup
\* script was made and did not fail.
ListenerStarted(r) ==
    /\ r.done
    /\ Called(r.inv.log, "Exec:startServer")
    /\ r.ret # "failed to start remote access server"

RetryInit ==
    /\ ssmClient = TRUE
    /\ pod = NewPod
    /\ stateFile = NoStateFile
    /\ inv = EmptyBag
    /\ returned = NoReturn
    /\ registered = FALSE
    /\ listening = FALSE
    /\ execs = NoExecs
    /\ admission = NoAdmission
    /\ connection = NoConnection
    /\ route = NoRoute
    /\ wsStatus = NoStatus
    /\ writers = [w \in Writers |-> IdleWriter]
    /\ upserted = NoUpserts
    /\ broker = NoBroker
    /\ idleProbe = NoProbe
    /\ envMerge = NoMerge
    /\ ws = [desired |-> "Running", templateRef |-> FALSE, idle |-> "nil",
             timeout |-> 3, lastActivity |-> {}, lastChecked |-> {}]
    /\ cluster = [deployment |-> "available", service |-> "present", access |-> "absent"]
    /\ last = [log |-> <<>>, requeue |-> "0", err |-> "nil",
               obs |-> [path |-> ""], desired |-> "", at |-> 0]
    /\ idleIn = [lastActivity |-> {}, timeoutMinutes |-> 0, now |-> 0]
    /\ idleOut = "unset"

\* the next attempt: SetupContainers is entered when no call is in flight
StartNextSetupContainers ==
    /\ inv = EmptyBag
    /\ StartSetupContainers
    /\ UNCHANGED <<registered, listening>>

\* the call ends; the sidecar is registered when its setup succeeded on the
\* sidecar process that is running now
SetupEnds(c) ==
    /\ SetupAndMarkComplete(c)
    /\ registered' =
          IF /\ SidecarSetupSucceeded(returned')
             /\ IsContainerRunning(pod, "sidecar")
             /\ c.pod.sidecar.restartCount = pod.sidecar.restartCount
          THEN TRUE
          ELSE registered
    /\ listening' =
          IF /\ ListenerStarted(returned')
             /\ IsContainerRunning(pod, "workspace")
             /\ c.pod.workspace.restartCount = pod.workspace.restartCount
          THEN TRUE
          ELSE listening

\* a restarted sidecar is a new process that has not registered
ContainerRestartsUnregistered ==
    /\ ContainerRestarts
    /\ registered' =
          (registered /\ pod'.sidecar.restartCount = pod.sidecar.restartCount)
    /\ listening' =
          (listening /\ pod'.workspace.restartCount = pod.workspace.restartCount)

RetryNext ==
    \/ StartNextSetupContainers /\ UNCHANGED <<smVars, idleVars, statusVars, fnVars>>
    \/ \E c \in InFlight :
          ReadStateAndDecide(c) /\ UNCHANGED <<smVars, idleVars, retryVars, statusVars, fnVars>>
    \/ \E c \in InFlight :
          WriteInProgressState(c) /\ UNCHANGED <<smVars, idleVars, retryVars, statusVars, fnVars>>
    \/ \E c \in InFlight : SetupEnds(c) /\ UNCHANGED <<smVars, idleVars, statusVars, fnVars>>
    \/ ContainerStarts /\ UNCHANGED <<smVars, idleVars, retryVars, statusVars, fnVars>>
    \/ ContainerRestartsUnregistered /\ UNCHANGED <<smVars, idleVars, statusVars, fnVars>>
    \/ StateFileCorrupted /\ UNCHANGED <<smVars, idleVars, retryVars, statusVars, fnVars>>

SpecRetry == RetryInit /\ [][RetryNext]_vars

(* ------------ SetupContainers, the activations of one pod -------------- *)
\* The invocations run at the same time as in SpecSetup; broker.activations
\* counts the activations the pod holds at the broker: each CreateActivation
\* that succeeded adds one, a cleanup that went through removes them all.
RaceInit ==
    /\ ssmClient = TRUE
    /\ pod = NewPod
    /\ stateFile = NoStateFile
    /\ inv = EmptyBag
    /\ returned = NoReturn
    /\ registered = FALSE
    /\ listening = FALSE
    /\ execs = NoExecs
    /\ admission = NoAdmission
    /\ connection = NoConnection
    /\ route = NoRoute
    /\ wsStatus = NoStatus
    /\ writers = [w \in Writers |-> IdleWriter]
    /\ upserted = NoUpserts
    /\ broker = NoBroker
    /\ idleProbe = NoProbe
    /\ envMerge = NoMerge
    /\ ws = [desired |-> "Running", templateRef |-> FALSE, idle |-> "nil",
             timeout |-> 3, lastActivity |-> {}, lastChecked |-> {}]
    /\ cluster = [deployment |-> "available", service |-> "present", access |-> "absent"]
    /\ last = [log |-> <<>>, requeue |-> "0", err |-> "nil",
               obs |-> [path |-> ""], desired |-> "", at |-> 0]
    /\ idleIn = [lastActivity |-> {}, timeoutMinutes |-> 0, now |-> 0]
    /\ idleOut = "unset"

\* SetupContainers is entered
RaceStarts ==
    /\ broker.activations < MaxActivations
    /\ StartSetupContainers
    /\ UNCHANGED broker

\* the call ends; its cleanup, when it made one, went through or not, and
\* its CreateActivation, when it made one that succeeded, left an activation
RaceSetupEnds(c) ==
    /\ SetupAndMarkComplete(c)
    /\ \E cleaned \in (IF c.needSidecarSetup /\ c.needCleanup THEN BOOLEAN ELSE {FALSE}) :
          LET kept == IF cleaned THEN 0 ELSE broker.activations
              created == IF /\ Called(returned'.inv.log, "CreateActivation")
                            /\ returned'.ret # "failed to create SSM activation"
                         THEN 1 ELSE 0
          IN broker' = [broker EXCEPT !.activations = kept + created]

RaceNext ==
    \/ RaceStarts /\ UNCHANGED <<smVars, idleVars, retryVars, statusVars, idleProbe, envMerge, execs, apiVars>>
    \/ \E c \in InFlight :
          ReadStateAndDecide(c) /\ UNCHANGED <<smVars, idleVars, retryVars, statusVars, fnVars>>
    \/ \E c \in InFlight :
          WriteInProgressState(c) /\ UNCHANGED <<smVars, idleVars, retryVars, statusVars, fnVars>>
    \/ \E c \in InFlight :
          RaceSetupEnds(c) /\ UNCHANGED <<smVars, idleVars, retryVars, statusVars, idleProbe, envMerge, execs, apiVars>>
    \/ ContainerStarts /\ UNCHANGED <<smVars, idleVars, retryVars, statusVars, fnVars>>
    \/ ContainerRestarts /\ UNCHANGED <<smVars, idleVars, retryVars, statusVars, fnVars>>

SpecRace == RaceInit /\ [][RaceNext]_vars

(* ----------------- status writers on one Workspace -------------------- *)
StatusInit ==
    /\ wsStatus = NoStatus
    /\ writers = [w \in Writers |-> IdleWriter]
    /\ upserted = NoUpserts
    /\ broker = NoBroker
    /\ idleProbe = NoProbe
    /\ envMerge = NoMerge
    /\ ssmClient = TRUE
    /\ pod = NewPod
    /\ stateFile = NoStateFile
    /\ inv = EmptyBag
    /\ returned = NoReturn
    /\ registered = FALSE
    /\ listening = FALSE
    /\ execs = NoExecs
    /\ admission = NoAdmission
    /\ connection = NoConnection
    /\ route = NoRoute
    /\ ws = [desired |-> "Running", templateRef |-> FALSE, idle |-> "nil",
             timeout |-> 3, lastActivity |-> {}, lastChecked |-> {}]
    /\ cluster = [deployment |-> "available", service |-> "present", access |-> "absent"]
    /\ last = [log |-> <<>>, requeue |-> "0", err |-> "nil",
               obs |-> [path |-> ""], desired |-> "", at |-> 0]
    /\ idleIn = [lastActivity |-> {}, timeoutMinutes |-> 0, now |-> 0]
    /\ idleOut = "unset"

StatusNext ==
    \/ \E w \in Writers : BeginAddResourceToStatus(w)
          /\ UNCHANGED <<smVars, idleVars, setupVars, retryVars, fnVars>>
    \/ \E w \in Writers : BeginOtherStatusWrite(w)
          /\ UNCHANGED <<smVars, idleVars, setupVars, retryVars, fnVars>>
    \/ \E w \in Writers : GetCurrent(w)
          /\ UNCHANGED <<smVars, idleVars, setupVars, retryVars, fnVars>>
    \/ \E w \in Writers : MutateAndUpdate(w)
          /\ UNCHANGED <<smVars, idleVars, setupVars, retryVars, fnVars>>

SpecStatus == StatusInit /\ [][StatusNext]_vars

(* ------------------- cleanup at the broker ----------------------------- *)
CleanupInit ==
    /\ ssmClient \in BOOLEAN
    /\ broker = NoBroker
    /\ idleProbe = NoProbe
    /\ envMerge = NoMerge
    /\ wsStatus = NoStatus
    /\ writers = [w \in Writers |-> IdleWriter]
    /\ upserted = NoUpserts
    /\ pod = NewPod
    /\ stateFile = NoStateFile
    /\ inv = EmptyBag
    /\ returned = NoReturn
    /\ registered = FALSE
    /\ listening = FALSE
    /\ execs = NoExecs
    /\ admission = NoAdmission
    /\ connection = NoConnection
    /\ route = NoRoute
    /\ ws = [desired |-> "Running", templateRef |-> FALSE, idle |-> "nil",
             timeout |-> 3, lastActivity |-> {}, lastChecked |-> {}]
    /\ cluster = [deployment |-> "available", service |-> "present", access |-> "absent"]
    /\ last = [log |-> <<>>, requeue |-> "0", err |-> "nil",
               obs |-> [path |-> ""], desired |-> "", at |-> 0]
    /\ idleIn = [lastActivity |-> {}, timeoutMinutes |-> 0, now |-> 0]
    /\ idleOut = "unset"

\* an activation is created for the pod
ActivationCreated ==
    /\ broker.activations < MaxRegistrations
    /\ broker' = [NoBroker EXCEPT !.instances = broker.instances,
                                  !.activations = broker.activations + 1]

\* an agent of the pod registers as a managed instance
InstanceRegistered ==
    /\ broker.activations > 0
    /\ broker.instances < MaxRegistrations
    /\ broker' = [NoBroker EXCEPT !.instances = broker.instances + 1,
                                  !.activations = broker.activations]

\* one call of CleanupSSMManagedNodes; a cleanup that succeeds leaves
\* nothing of its kind for the pod
CallCleanupSSMManagedNodes ==
    \E instancesOk \in BOOLEAN, activationsOk \in BOOLEAN :
        LET r == CleanupSSMManagedNodes(ssmClient, instancesOk, activationsOk)
            did(op) == Called(r.log, op)
        IN broker' =
              [instances |-> IF did("CleanupManagedInstancesByPodUID") /\ instancesOk
                             THEN 0 ELSE broker.instances,
               activations |-> IF did("CleanupActivationsByPodUID") /\ activationsOk
                               THEN 0 ELSE broker.activations,
               called |-> TRUE, instancesOk |-> instancesOk,
               activationsOk |-> activationsOk, log |-> r.log, err |-> r.err]

CleanupNext ==
    \/ ActivationCreated
          /\ UNCHANGED <<smVars, idleVars, setupVars, retryVars, statusVars,
                         idleProbe, envMerge, execs, apiVars>>
    \/ InstanceRegistered
          /\ UNCHANGED <<smVars, idleVars, setupVars, retryVars, statusVars,
                         idleProbe, envMerge, execs, apiVars>>
    \/ CallCleanupSSMManagedNodes
          /\ UNCHANGED <<smVars, idleVars, setupVars, retryVars, statusVars,
                         idleProbe, envMerge, execs, apiVars>>

SpecCleanup == CleanupInit /\ [][CleanupNext]_vars

(* --------------------- idle probe: CheckWorkspaceIdle ------------------ *)
\* The body of the endpoint's answer is a sequence of <<name, value>>
\* fields; json says whether the text is a JSON object of these fields or
\* some other text made of the same words.
FieldNames == {"lastActiveTimestamp", "error", "kernels"}
FieldValues == {"", "2024-01-01T00:00:00Z", "Connection refused"}
Bodies == UNION {[1..n -> FieldNames \X FieldValues] : n \in 0..MaxFields}
StatusCodes == {"000", "404", "200", "302", "500", ""}

\* strings.Contains(output, needle)
Contains(body, needle) ==
    \E i \in 1..Len(body) : body[i][1] = needle \/ body[i][2] = needle

\* json.Unmarshal into IdleResponse: the value of the last field named
\* lastActiveTimestamp, "" without such a field
LastActivityOf(body) ==
    LET at == {i \in 1..Len(body) : body[i][1] = "lastActiveTimestamp"}
    IN IF at = {} THEN ""
       ELSE body[CHOOSE i \in at : \A j \in at : j <= i][2]

IdleResult(lastActivity, err, errBody) ==
    [lastActivity |-> lastActivity, err |-> err, errBody |-> errBody]

\* callIdleEndpoint: the curl exec, then the status code decides
CallIdleEndpoint(execOk, status, body) ==
    IF ~execOk THEN [output |-> <<>>, err |-> "curl execution failed", errBody |-> <<>>]
    ELSE CASE status = "000" ->
                [output |-> <<>>, err |-> "connection refused - app starting",
                 errBody |-> <<>>]
           [] status = "404" ->
                [output |-> <<>>, err |-> "endpoint not found - wrong path",
                 errBody |-> <<>>]
           [] status = "200" ->
                [output |-> body, err |-> NoError, errBody |-> <<>>]
           [] OTHER ->
                [output |-> <<>>, err |-> "unexpected HTTP status", errBody |-> body]

\* CheckWorkspaceIdle
CheckWorkspaceIdle(in) ==
    IF ~in.podFound THEN IdleResult("", "failed to find workspace pod", <<>>)
    ELSE IF ~in.clientset THEN IdleResult("now", NoError, <<>>)
    ELSE LET r == CallIdleEndpoint(in.execOk, in.status, in.body)
         IN IF r.err # NoError THEN IdleResult("", r.err, r.errBody)
            ELSE IF Contains(r.output, "Connection refused") \/ Contains(r.output, "error")
            THEN IdleResult("", "jupyter server not ready: connection refused", <<>>)
            ELSE IF ~in.json
            THEN IdleResult("", "failed to parse idle response", <<>>)
            ELSE IF LastActivityOf(r.output) = ""
            THEN IdleResult("", "invalid idle response: empty lastActiveTimestamp", <<>>)
            ELSE IdleResult(LastActivityOf(r.output), NoError, <<>>)

ProbeInit ==
    /\ \E podFound \in BOOLEAN, clientset \in BOOLEAN, execOk \in BOOLEAN,
          status \in StatusCodes, body \in Bodies, json \in BOOLEAN :
          idleProbe = [NoProbe EXCEPT !.podFound = podFound, !.clientset = clientset,
                                      !.execOk = execOk, !.status = status,
                                      !.body = body, !.json = json]
    /\ broker = NoBroker
    /\ envMerge = NoMerge
    /\ ssmClient = TRUE
    /\ wsStatus = NoStatus
    /\ writers = [w \in Writers |-> IdleWriter]
    /\ upserted = NoUpserts
    /\ pod = NewPod
    /\ stateFile = NoStateFile
    /\ inv = EmptyBag
    /\ returned = NoReturn
    /\ registered = FALSE
    /\ listening = FALSE
    /\ execs = NoExecs
    /\ admission = NoAdmission
    /\ connection = NoConnection
    /\ route = NoRoute
    /\ ws = [desired |-> "Running", templateRef |-> FALSE, idle |-> "nil",
             timeout |-> 3, lastActivity |-> {}, lastChecked |-> {}]
    /\ cluster = [deployment |-> "available", service |-> "present", access |-> "absent"]
    /\ last = [log |-> <<>>, requeue |-> "0", err |-> "nil",
               obs |-> [path |-> ""], desired |-> "", at |-> 0]
    /\ idleIn = [lastActivity |-> {}, timeoutMinutes |-> 0, now |-> 0]
    /\ idleOut = "unset"

\* one call of CheckWorkspaceIdle
CallCheckWorkspaceIdle ==
    /\ ~idleProbe.done
    /\ LET r == CheckWorkspaceIdle(idleProbe)
       IN idleProbe' = [idleProbe EXCEPT !.done = TRUE,
                                         !.lastActivity = r.lastActivity,
                                         !.err = r.err, !.errBody = r.errBody]
    /\ UNCHANGED <<smVars, idleVars, setupVars, retryVars, statusVars, broker,
                   envMerge, execs, apiVars>>

ProbeNext == CallCheckWorkspaceIdle

SpecProbe == ProbeInit /\ [][ProbeNext]_vars

(* ------------- deployment builder: access strategy env ----------------- *)
EnvNames == {"A", "B"}
EnvValues == {"old1", "old2"}
\* value templates: a literal, a reference to the workspace's name, a
\* template that does not parse, and one that refers to a missing field
ValueTemplates == {"static", "{{.Workspace.Name}}", "{{", "{{.Workspace.Nope}}"}
EnvVar(name, value) == [name |-> name, value |-> value]
EnvTemplate(name, valueTemplate) == [name |-> name, valueTemplate |-> valueTemplate]
EnvLists == UNION {[1..n -> [name : EnvNames, value : EnvValues]] : n \in 0..MaxEnv}
MergeEnvLists ==
    UNION {[1..n -> [name : EnvNames, valueTemplate : ValueTemplates]] :
              n \in 0..MaxMergeEnv}

\* template.New("env").Parse(t), then Execute on the workspace
Interpolate(valueTemplate) ==
    CASE valueTemplate = "static" -> [value |-> "static", err |-> NoError]
      [] valueTemplate = "{{.Workspace.Name}}" -> [value |-> "ws1", err |-> NoError]
      [] valueTemplate = "{{" -> [value |-> "", err |-> "failed to parse env template"]
      [] OTHER -> [value |-> "", err |-> "failed to execute env template"]

\* resolveAccessStrategyEnv: the templates in order, the first error ends it
RECURSIVE ResolveFrom(_, _, _)
ResolveFrom(mergeEnv, i, acc) ==
    IF i > Len(mergeEnv) THEN [envVars |-> acc, err |-> NoError]
    ELSE LET r == Interpolate(mergeEnv[i].valueTemplate)
         IN IF r.err # NoError THEN [envVars |-> <<>>, err |-> r.err]
            ELSE ResolveFrom(mergeEnv, i + 1,
                             Append(acc, EnvVar(mergeEnv[i].name, r.value)))

ResolveAccessStrategyEnv(mergeEnv) == ResolveFrom(mergeEnv, 1, <<>>)

\* the merge of one resolved variable: the first entry of that name gets the
\* value, and the variable is appended when there is none
SetEnvVar(env, v) ==
    LET at == {i \in 1..Len(env) : env[i].name = v.name}
    IN IF at = {} THEN Append(env, v)
       ELSE [env EXCEPT ![CHOOSE i \in at : \A j \in at : i <= j].value = v.value]

RECURSIVE MergeFrom(_, _, _)
MergeFrom(env, resolved, i) ==
    IF i > Len(resolved) THEN env
    ELSE MergeFrom(SetEnvVar(env, resolved[i]), resolved, i + 1)

\* addAccessStrategyEnvToContainer on the primary container's env
AddAccessStrategyEnvToContainer(env, mergeEnv) ==
    LET r == ResolveAccessStrategyEnv(mergeEnv)
    IN IF r.err # NoError THEN [env |-> env, err |-> r.err]
       ELSE [env |-> MergeFrom(env, r.envVars, 1), err |-> NoError]

\* the pod template's volumes, the primary container's mounts and the pod's
\* containers, as the three lists of one record
PodSpecOf(in) ==
    [volumes |-> in.volumes, volumeMounts |-> in.volumeMounts,
     containers |-> in.containers]

\* a variant that skips the entries the list already holds
ApplyDeploymentSpecModificationsDeduplicating(spec, mods) ==
    LET AppendMissing(list, more) ==
            LET Missing(x) == \A i \in 1..Len(list) : list[i] # x
            IN list \o SelectSeq(more, Missing)
    IN
    IF mods.nil THEN spec
    ELSE [volumes |-> IF mods.podSpecNil THEN spec.volumes
                      ELSE AppendMissing(spec.volumes, mods.volumes),
          volumeMounts |-> IF mods.primaryNil THEN spec.volumeMounts
                           ELSE AppendMissing(spec.volumeMounts, mods.volumeMounts),
          containers |-> IF mods.podSpecNil THEN spec.containers
                         ELSE AppendMissing(spec.containers,
                                            mods.additionalContainers)]

\* applyDeploymentSpecModifications: three appends, each behind its nil and
\* length tests; it has no failing return
ApplyDeploymentSpecModifications(spec, mods) ==
    IF mods.nil THEN spec
    ELSE LET withVolumes ==
                 IF ~mods.podSpecNil /\ Len(mods.volumes) > 0
                 THEN [spec EXCEPT !.volumes = @ \o mods.volumes]
                 ELSE spec
             withMounts ==
                 IF ~mods.primaryNil /\ Len(mods.volumeMounts) > 0
                 THEN [withVolumes EXCEPT !.volumeMounts = @ \o mods.volumeMounts]
                 ELSE withVolumes
         IN IF ~mods.podSpecNil /\ Len(mods.additionalContainers) > 0
            THEN [withMounts EXCEPT !.containers = @ \o mods.additionalContainers]
            ELSE withMounts

\* a variant that modifies the pod template before it resolves the env
ApplyAccessStrategyModificationsFirst(in) ==
    IF ~in.deployment
    THEN [env |-> in.env, out |-> PodSpecOf(in),
          err |-> "cannot apply AccessStrategy to nil deployment"]
    ELSE IF ~in.strategy THEN [env |-> in.env, out |-> PodSpecOf(in), err |-> NoError]
    ELSE LET r == AddAccessStrategyEnvToContainer(in.env, in.mergeEnv)
         IN [env |-> r.env,
             out |-> ApplyDeploymentSpecModifications(PodSpecOf(in), in.mods),
             err |-> r.err]

\* ApplyAccessStrategyToDeployment: the env of the primary container first,
\* then the modifications of the pod template
ApplyAccessStrategyToDeployment(in) ==
    IF ~in.deployment
    THEN [env |-> in.env, out |-> PodSpecOf(in),
          err |-> "cannot apply AccessStrategy to nil deployment"]
    ELSE IF ~in.strategy THEN [env |-> in.env, out |-> PodSpecOf(in), err |-> NoError]
    ELSE LET r == AddAccessStrategyEnvToContainer(in.env, in.mergeEnv)
         IN IF r.err # NoError
            THEN [env |-> r.env, out |-> PodSpecOf(in), err |-> r.err]
            ELSE [env |-> r.env,
                  out |-> ApplyDeploymentSpecModifications(PodSpecOf(in), in.mods),
                  err |-> NoError]

\* the calls that vary the env lists, on a bare pod template
EnvCases ==
    {[NoMerge EXCEPT !.deployment = c[1], !.strategy = c[2], !.env = c[3],
                     !.mergeEnv = c[4]] :
        c \in {x \in BOOLEAN \X BOOLEAN \X EnvLists \X MergeEnvLists :
                  /\ x[1] \/ x[2]
                  /\ x[2] \/ x[4] = <<>>
                  /\ x[1] \/ x[3] = <<>>}}

VolumeNames == {"vol1", "vol2"}
MountNames == {"mnt1", "mnt2"}
ContainerNames == {"side1", "side2"}
ListsOf(names) == UNION {[1..n -> names] : n \in 0..MaxMods}
\* Spec.DeploymentSpecModifications: nil, or PodSpec and PrimaryContainer
\* each nil or set
ModChoices ==
    {NoMods} \cup
    {[nil |-> FALSE, podSpecNil |-> m[1], primaryNil |-> m[2],
      volumes |-> m[3], volumeMounts |-> m[4], additionalContainers |-> m[5]] :
        m \in {x \in BOOLEAN \X BOOLEAN \X ListsOf(VolumeNames)
                        \X ListsOf(MountNames) \X ListsOf(ContainerNames) :
                  /\ x[1] => (x[3] = <<>> /\ x[5] = <<>>)
                  /\ x[2] => x[4] = <<>>}}
\* the pod template before the call: bare, or with entries in every list
PodSpecChoices ==
    {BarePodSpec,
     [volumes |-> <<"vol2", "vol1">>, volumeMounts |-> <<"mnt2", "mnt1">>,
      containers |-> <<"main", "side2", "side1">>]}
ModMergeEnvs ==
    {<<>>, <<EnvTemplate("A", "static")>>,
     <<EnvTemplate("A", "static"), EnvTemplate("B", "{{")>>,
     <<EnvTemplate("B", "static"), EnvTemplate("A", "{{.Workspace.Nope}}")>>}
\* the calls that vary the modifications
ModCases ==
    {[NoMerge EXCEPT !.env = c[1], !.mergeEnv = c[2], !.volumes = c[3].volumes,
                     !.volumeMounts = c[3].volumeMounts,
                     !.containers = c[3].containers, !.mods = c[4]] :
        c \in {<<>>, <<EnvVar("A", "old1")>>} \X ModMergeEnvs \X PodSpecChoices
                 \X ModChoices}

MergeInit ==
    /\ envMerge \in EnvCases \cup ModCases
    /\ broker = NoBroker
    /\ idleProbe = NoProbe
    /\ ssmClient = TRUE
    /\ wsStatus = NoStatus
    /\ writers = [w \in Writers |-> IdleWriter]
    /\ upserted = NoUpserts
    /\ pod = NewPod
    /\ stateFile = NoStateFile
    /\ inv = EmptyBag
    /\ returned = NoReturn
    /\ registered = FALSE
    /\ listening = FALSE
    /\ execs = NoExecs
    /\ admission = NoAdmission
    /\ connection = NoConnection
    /\ route = NoRoute
    /\ ws = [desired |-> "Running", templateRef |-> FALSE, idle |-> "nil",
             timeout |-> 3, lastActivity |-> {}, lastChecked |-> {}]
    /\ cluster = [deployment |-> "available", service |-> "present", access |-> "absent"]
    /\ last = [log |-> <<>>, requeue |-> "0", err |-> "nil",
               obs |-> [path |-> ""], desired |-> "", at |-> 0]
    /\ idleIn = [lastActivity |-> {}, timeoutMinutes |-> 0, now |-> 0]
    /\ idleOut = "unset"

\* one call of ApplyAccessStrategyToDeployment
CallApplyAccessStrategyToDeployment ==
    /\ ~envMerge.done
    /\ LET r == ApplyAccessStrategyToDeployment(envMerge)
       IN envMerge' = [envMerge EXCEPT !.done = TRUE, !.result = r.env,
                                       !.out = r.out, !.err = r.err]
    /\ UNCHANGED <<smVars, idleVars, setupVars, retryVars, statusVars, broker,
                   idleProbe, execs, apiVars>>

\* a second call with the same strategy on the deployment the first call left
CallApplyAccessStrategyToDeploymentAgain ==
    /\ envMerge.done
    /\ ~envMerge.again.done
    /\ LET r == ApplyAccessStrategyToDeployment(
                    [envMerge EXCEPT !.env = envMerge.result,
                                     !.volumes = envMerge.out.volumes,
                                     !.volumeMounts = envMerge.out.volumeMounts,
                                     !.containers = envMerge.out.containers])
       IN envMerge' = [envMerge EXCEPT !.again = [done |-> TRUE, env |-> r.env,
                                                  out |-> r.out, err |-> r.err]]
    /\ UNCHANGED <<smVars, idleVars, setupVars, retryVars, statusVars, broker,
                   idleProbe, execs, apiVars>>

MergeNext ==
    \/ CallApplyAccessStrategyToDeployment
    \/ CallApplyAccessStrategyToDeploymentAgain

SpecMerge == MergeInit /\ [][MergeNext]_vars

(* ------------------- remote access: the exec calls --------------------- *)
SSMAgentSidecarContainerName == "ssm-agent-sidecar"
WorkspaceContainerName == "workspace"
SSMRegistrationStateFile == "/opt/amazon/sagemaker/workspace/.ssm-registration-state.json"
SSMRegistrationMarkerFile == "/tmp/ssm-registered"
SSMRegistrationScript == "/usr/local/bin/register-ssm.sh"
RemoteAccessServerScriptPath ==
    "/opt/amazon/sagemaker/workspace/remote-access/start-remote-access-server.sh"
RemoteAccessServerPort == "2222"
ActivationIds == {"id-1", "id-2"}
ActivationCodes == {"code-1", "code-2"}
Regions == {"us-east-1", "eu-west-1"}

\* ExecInPod(ctx, pod, containerName, cmd, stdin): the command is a sequence
\* of words, the stdin a sequence of lines
ExecInPod(containerName, cmd, stdin) ==
    [container |-> containerName, cmd |-> cmd, stdin |-> stdin]

\* the registration exec with the credentials in the command
RegisterExecCredentialsInArgv(id, code, region) ==
    ExecInPod(SSMAgentSidecarContainerName,
              <<"bash", "-c", "env ACTIVATION_ID=", id, "ACTIVATION_CODE=", code,
                "REGION=", region, SSMRegistrationScript>>,
              <<>>)

\* the registration exec of setupSidecarContainer: the script reads the
\* activation id and code from its stdin
RegisterExec(id, code, region) ==
    ExecInPod(SSMAgentSidecarContainerName,
              <<"bash", "-c",
                "read ACTIVATION_ID && read ACTIVATION_CODE && env ACTIVATION_ID=$ACTIVATION_ID ACTIVATION_CODE=$ACTIVATION_CODE",
                "REGION=", region, SSMRegistrationScript>>,
              <<id, code>>)

\* the exec call behind a logged call of SetupContainers
ExecOf(call, id, code, region) ==
    CASE call.op = "Exec:readState" ->
            ExecInPod(SSMAgentSidecarContainerName,
                      <<"cat", SSMRegistrationStateFile>>, <<>>)
      [] call.op = "Exec:writeState" ->
            ExecInPod(SSMAgentSidecarContainerName,
                      <<"bash", "-c", "echo", call.kind, ">", SSMRegistrationStateFile>>,
                      <<>>)
      [] call.op = "Exec:register" -> RegisterExec(id, code, region)
      [] call.op = "Exec:marker" ->
            ExecInPod(SSMAgentSidecarContainerName,
                      <<"touch", SSMRegistrationMarkerFile>>, <<>>)
      [] OTHER ->
            ExecInPod(WorkspaceContainerName,
                      <<RemoteAccessServerScriptPath, "--port", RemoteAccessServerPort>>,
                      <<>>)

IsExec(call) ==
    call.op \in {"Exec:readState", "Exec:writeState", "Exec:register", "Exec:marker",
                 "Exec:startServer"}

\* The exec calls of one SetupContainers call that sets up both containers
\* of a running pod, with the activation that CreateActivation returned.
ExecsOfSetupContainers(id, code, region, cleanupNeeded, outcome) ==
    LET running == [running |-> TRUE, restartCount |-> 0]
        c == [NotInvoked EXCEPT !.pod = [sidecar |-> running, workspace |-> running],
                                !.needSidecarSetup = TRUE,
                                !.needWorkspaceSetup = TRUE,
                                !.needCleanup = cleanupNeeded]
        setup == SetupContainersAsNeeded(c, <<outcome, TRUE>>)
        end == MarkSetupComplete(c, setup.err, NoStateFile, TRUE)
        log == <<Call("Exec:readState"), WriteStateCall("inProgress")>>
                  \o setup.log \o end.log
        execLog == SelectSeq(log, IsExec)
    IN [i \in 1..Len(execLog) |-> ExecOf(execLog[i], id, code, region)]

ExecInit ==
    /\ \E idA \in ActivationIds, idB \in ActivationIds,
          codeA \in ActivationCodes, codeB \in ActivationCodes,
          region \in Regions, cleanupNeeded \in BOOLEAN, outcome \in SidecarOutcomes :
          execs = [NoExecs EXCEPT !.idA = idA, !.codeA = codeA, !.idB = idB,
                                  !.codeB = codeB, !.region = region,
                                  !.cleanupNeeded = cleanupNeeded,
                                  !.outcome = outcome]
    /\ admission = NoAdmission
    /\ connection = NoConnection
    /\ route = NoRoute
    /\ broker = NoBroker
    /\ idleProbe = NoProbe
    /\ envMerge = NoMerge
    /\ ssmClient = TRUE
    /\ wsStatus = NoStatus
    /\ writers = [w \in Writers |-> IdleWriter]
    /\ upserted = NoUpserts
    /\ pod = NewPod
    /\ stateFile = NoStateFile
    /\ inv = EmptyBag
    /\ returned = NoReturn
    /\ registered = FALSE
    /\ listening = FALSE
    /\ ws = [desired |-> "Running", templateRef |-> FALSE, idle |-> "nil",
             timeout |-> 3, lastActivity |-> {}, lastChecked |-> {}]
    /\ cluster = [deployment |-> "available", service |-> "present", access |-> "absent"]
    /\ last = [log |-> <<>>, requeue |-> "0", err |-> "nil",
               obs |-> [path |-> ""], desired |-> "", at |-> 0]
    /\ idleIn = [lastActivity |-> {}, timeoutMinutes |-> 0, now |-> 0]
    /\ idleOut = "unset"

\* the two runs of SetupContainers, alike in everything but the credentials
RunSetupContainersTwice ==
    /\ ~execs.done
    /\ execs' = [execs EXCEPT
                   !.done = TRUE,
                   !.runA = ExecsOfSetupContainers(execs.idA, execs.codeA, execs.region,
                                                   execs.cleanupNeeded, execs.outcome),
                   !.runB = ExecsOfSetupContainers(execs.idB, execs.codeB, execs.region,
                                                   execs.cleanupNeeded, execs.outcome)]
    /\ UNCHANGED <<smVars, idleVars, setupVars, retryVars, statusVars, broker,
                   idleProbe, envMerge, apiVars>>

ExecNext == RunSetupContainersTwice

SpecExec == ExecInit /\ [][ExecNext]_vars

(* ------------------- pod exec webhook: Handle -------------------------- *)
\* A user name is the sequence of the parts that ":" separates in it.
ControllerServiceAccount == "jupyter-k8s-controller-manager"
LabelWorkspaceName == "workspace.jupyter.org/workspace-name"
Namespaces == {"jupyter-k8s-system", "default"}
ServiceAccountUser(namespace, name) == <<"system", "serviceaccount", namespace, name>>
Usernames ==
    {ServiceAccountUser(ns, n) : ns \in Namespaces,
                                 n \in {ControllerServiceAccount, "default"}}
       \cup {<<"system", "anonymous">>, <<"kubernetes-admin">>,
             <<ControllerServiceAccount>>}
LabelSets == SUBSET {LabelWorkspaceName, "app"}
\* Client.Get of the target pod: found, or an error (not found among them)
GetOutcomes == {"found", "notFound", "error"}

\* Handle that looks at the pod before it looks at the user
HandleFetchingFirst(in) ==
    LET get == <<Call("Client.Get")>>
    IN IF in.get # "found"
       THEN [log |-> get, allowed |-> FALSE, result |-> "Errored"]
       ELSE IF in.user # ServiceAccountUser(in.controllerNamespace, ControllerServiceAccount)
       THEN [log |-> get, allowed |-> FALSE, result |-> "Denied"]
       ELSE IF LabelWorkspaceName \notin in.labels
       THEN [log |-> get, allowed |-> FALSE, result |-> "Denied"]
       ELSE [log |-> get, allowed |-> TRUE, result |-> "Allowed"]

\* PodExecValidator.Handle
Handle(in) ==
    LET expectedUser ==
            ServiceAccountUser(in.controllerNamespace, ControllerServiceAccount)
        get == <<Call("Client.Get")>>
    IN IF in.user # expectedUser
       THEN [log |-> <<>>, allowed |-> FALSE, result |-> "Denied"]
       ELSE IF in.get # "found"
       THEN [log |-> get, allowed |-> FALSE, result |-> "Errored"]
       ELSE IF LabelWorkspaceName \notin in.labels
       THEN [log |-> get, allowed |-> FALSE, result |-> "Denied"]
       ELSE [log |-> get, allowed |-> TRUE, result |-> "Allowed"]

AdmissionInit ==
    /\ \E user \in Usernames, ns \in Namespaces, get \in GetOutcomes,
          labels \in LabelSets :
          /\ get # "found" => labels = {}
          /\ admission = [NoAdmission EXCEPT !.user = user,
                                             !.controllerNamespace = ns,
                                             !.get = get, !.labels = labels]
    /\ connection = NoConnection
    /\ route = NoRoute
    /\ broker = NoBroker
    /\ idleProbe = NoProbe
    /\ envMerge = NoMerge
    /\ ssmClient = TRUE
    /\ wsStatus = NoStatus
    /\ writers = [w \in Writers |-> IdleWriter]
    /\ upserted = NoUpserts
    /\ pod = NewPod
    /\ stateFile = NoStateFile
    /\ inv = EmptyBag
    /\ returned = NoReturn
    /\ registered = FALSE
    /\ listening = FALSE
    /\ ws = [desired |-> "Running", templateRef |-> FALSE, idle |-> "nil",
             timeout |-> 3, lastActivity |-> {}, lastChecked |-> {}]
    /\ cluster = [deployment |-> "available", service |-> "present", access |-> "absent"]
    /\ last = [log |-> <<>>, requeue |-> "0", err |-> "nil",
               obs |-> [path |-> ""], desired |-> "", at |-> 0]
    /\ idleIn = [lastActivity |-> {}, timeoutMinutes |-> 0, now |-> 0]
    /\ idleOut = "unset"
    /\ execs = NoExecs

\* one admission request
CallHandle ==
    /\ ~admission.done
    /\ LET r == Handle(admission)
       IN admission' = [admission EXCEPT !.done = TRUE, !.log = r.log,
                                         !.allowed = r.allowed,
                                         !.result = r.result]
    /\ UNCHANGED <<smVars, idleVars, setupVars, retryVars, statusVars, broker,
                   idleProbe, envMerge, execs, connection, route>>

AdmissionNext == CallHandle

SpecAdmission == AdmissionInit /\ [][AdmissionNext]_vars

(* ------------- extension API: WorkspaceConnectionStorage.Create -------- *)
ConnectionTypeVSCodeRemote == "vscode-remote"
ConnectionTypeWebUI == "web-ui"
ConnectionTypes == {ConnectionTypeVSCodeRemote, ConnectionTypeWebUI, "other"}
\* the type of the object handed to Create
ObjectKinds == {"WorkspaceConnection", "WorkspaceConnectionRequest", "other"}
\* what CheckWorkspaceAccess returns: an error, or a result with its two flags
AccessResults ==
    {[err |-> TRUE, notFound |-> FALSE, allowed |-> FALSE]}
       \cup [err : {FALSE}, notFound : BOOLEAN, allowed : BOOLEAN]
NoURL == [log |-> <<>>, user |-> "", url |-> "", err |-> NoError]

\* the end of Create: the URL of the connection type
GenerateConnectionURL(in, log, user) ==
    LET generate ==
            IF in.type = ConnectionTypeVSCodeRemote
            THEN Call("generateVSCodeURLFromStorage")
            ELSE Call("generateWebUIURLFromStorage")
    IN IF in.type \notin {ConnectionTypeVSCodeRemote, ConnectionTypeWebUI}
       THEN [NoURL EXCEPT !.log = log, !.user = user,
                          !.err = "invalid workspace connection type"]
       ELSE IF ~in.urlOk
       THEN [NoURL EXCEPT !.log = Append(log, generate), !.user = user,
                          !.err = "failed to generate connection URL"]
       ELSE [NoURL EXCEPT !.log = Append(log, generate), !.user = user,
                          !.url = in.type]

\* Create that leaves out the test of result.Allowed
CreateWithoutAllowedTest(in) ==
    LET validated == <<Call("validateWorkspaceConnectionRequest")>>
        user == IF in.userInContext THEN "user-1" ELSE "system:anonymous"
        checked == Append(validated, Call("CheckWorkspaceAccess"))
    IN IF in.obj = "other"
       THEN [NoURL EXCEPT !.err = "expected WorkspaceConnection or WorkspaceConnectionRequest"]
       ELSE IF ~in.valid
       THEN [NoURL EXCEPT !.log = validated, !.err = "invalid request"]
       ELSE IF in.type = ConnectionTypeVSCodeRemote /\ ~in.clusterId
       THEN [NoURL EXCEPT !.log = validated, !.err = "CLUSTER_ID not configured"]
       ELSE IF in.access.err
       THEN [NoURL EXCEPT !.log = checked, !.user = user, !.err = "authorization failed"]
       ELSE IF in.access.notFound
       THEN [NoURL EXCEPT !.log = checked, !.user = user, !.err = "workspace not found"]
       ELSE GenerateConnectionURL(in, checked, user)

\* WorkspaceConnectionStorage.Create
Create(in) ==
    LET validated == <<Call("validateWorkspaceConnectionRequest")>>
        user == IF in.userInContext THEN "user-1" ELSE "system:anonymous"
        checked == Append(validated, Call("CheckWorkspaceAccess"))
    IN IF in.obj = "other"
       THEN [NoURL EXCEPT !.err = "expected WorkspaceConnection or WorkspaceConnectionRequest"]
       ELSE IF ~in.valid
       THEN [NoURL EXCEPT !.log = validated, !.err = "invalid request"]
       ELSE IF in.type = ConnectionTypeVSCodeRemote /\ ~in.clusterId
       THEN [NoURL EXCEPT !.log = validated, !.err = "CLUSTER_ID not configured"]
       ELSE IF in.access.err
       THEN [NoURL EXCEPT !.log = checked, !.user = user, !.err = "authorization failed"]
       ELSE IF in.access.notFound
       THEN [NoURL EXCEPT !.log = checked, !.user = user, !.err = "workspace not found"]
       ELSE IF ~in.access.allowed
       THEN [NoURL EXCEPT !.log = checked, !.user = user, !.err = "access forbidden"]
       ELSE GenerateConnectionURL(in, checked, user)

ConnectionInit ==
    /\ \E obj \in ObjectKinds, valid \in BOOLEAN, type \in ConnectionTypes,
          clusterId \in BOOLEAN, userInContext \in BOOLEAN,
          access \in AccessResults, urlOk \in BOOLEAN :
          connection = [NoConnection EXCEPT !.obj = obj, !.valid = valid,
                                            !.type = type, !.clusterId = clusterId,
                                            !.userInContext = userInContext,
                                            !.access = access, !.urlOk = urlOk]
    /\ admission = NoAdmission
    /\ route = NoRoute
    /\ broker = NoBroker
    /\ idleProbe = NoProbe
    /\ envMerge = NoMerge
    /\ ssmClient = TRUE
    /\ wsStatus = NoStatus
    /\ writers = [w \in Writers |-> IdleWriter]
    /\ upserted = NoUpserts
    /\ pod = NewPod
    /\ stateFile = NoStateFile
    /\ inv = EmptyBag
    /\ returned = NoReturn
    /\ registered = FALSE
    /\ listening = FALSE
    /\ ws = [desired |-> "Running", templateRef |-> FALSE, idle |-> "nil",
             timeout |-> 3, lastActivity |-> {}, lastChecked |-> {}]
    /\ cluster = [deployment |-> "available", service |-> "present", access |-> "absent"]
    /\ last = [log |-> <<>>, requeue |-> "0", err |-> "nil",
               obs |-> [path |-> ""], desired |-> "", at |-> 0]
    /\ idleIn = [lastActivity |-> {}, timeoutMinutes |-> 0, now |-> 0]
    /\ idleOut = "unset"
    /\ execs = NoExecs

\* one call of Create
CallCreate ==
    /\ ~connection.done
    /\ LET r == Create(connection)
       IN connection' = [connection EXCEPT !.done = TRUE, !.log = r.log,
                                           !.user = r.user, !.url = r.url,
                                           !.err = r.err]
    /\ UNCHANGED <<smVars, idleVars, setupVars, retryVars, statusVars, broker,
                   idleProbe, envMerge, execs, admission, route>>

ConnectionNext == CallCreate

SpecConnection == ConnectionInit /\ [][ConnectionNext]_vars

(* ------------- extension API: namespaced routes and discovery ---------- *)
\* strings.Split(ApiPath + "/namespaces/", "/") without its last part
PrefixParts == <<"", "apis", "connection.workspace.jupyter.org", "v1alpha1", "namespaces">>
\* the map handed to registerNamespacedRoutes by registerAllRoutes
resourceHandlers ==
    ("workspaceconnections" :> "HandleConnectionCreate")
       @@ ("connectionaccessreview" :> "handleConnectionAccessReview")
\* the namespaced resource names of handleV1Discovery and handleV2Discovery
AdvertisedResources == {"workspaceconnections", "connectionaccessreviews"}
\* path segments of the requests
Segments ==
    {"", "default", "team-a", "workspaceconnections", "connectionaccessreviews",
     "connectionaccessreview", "dummyresources"}
\* what follows the prefix in a request path the mux hands to the handler
Tails == UNION {[1..n -> Segments] : n \in 1..3}

\* the handler registerNamespacedRoutes registers for the namespaced prefix
Route(in) ==
    LET parts == PrefixParts \o in.tail
        resource == parts[Len(parts)]
    IN IF ~in.namespaceOk
       THEN [handler |-> "", status |-> "400"]
       ELSE IF Len(parts) < 6
       THEN [handler |-> "", status |-> "404"]
       ELSE IF resource \in DOMAIN resourceHandlers
       THEN [handler |-> resourceHandlers[resource], status |-> "handled"]
       ELSE [handler |-> "", status |-> "404"]

RouteInit ==
    /\ \E tail \in Tails, namespaceOk \in BOOLEAN :
          route = [NoRoute EXCEPT !.tail = tail, !.namespaceOk = namespaceOk,
                                  !.namespace = IF namespaceOk THEN tail[1] ELSE ""]
    /\ admission = NoAdmission
    /\ connection = NoConnection
    /\ broker = NoBroker
    /\ idleProbe = NoProbe
    /\ envMerge = NoMerge
    /\ ssmClient = TRUE
    /\ wsStatus = NoStatus
    /\ writers = [w \in Writers |-> IdleWriter]
    /\ upserted = NoUpserts
    /\ pod = NewPod
    /\ stateFile = NoStateFile
    /\ inv = EmptyBag
    /\ returned = NoReturn
    /\ registered = FALSE
    /\ listening = FALSE
    /\ ws = [desired |-> "Running", templateRef |-> FALSE, idle |-> "nil",
             timeout |-> 3, lastActivity |-> {}, lastChecked |-> {}]
    /\ cluster = [deployment |-> "available", service |-> "present", access |-> "absent"]
    /\ last = [log |-> <<>>, requeue |-> "0", err |-> "nil",
               obs |-> [path |-> ""], desired |-> "", at |-> 0]
    /\ idleIn = [lastActivity |-> {}, timeoutMinutes |-> 0, now |-> 0]
    /\ idleOut = "unset"
    /\ execs = NoExecs

\* one request under the namespaced path prefix
ServeNamespaced ==
    /\ ~route.done
    /\ LET r == Route(route)
       IN route' = [route EXCEPT !.done = TRUE, !.handler = r.handler,
                                 !.status = r.status]
    /\ UNCHANGED <<smVars, idleVars, setupVars, retryVars, statusVars, broker,
                   idleProbe, envMerge, execs, admission, connection>>

RouteNext == ServeNamespaced

SpecRoute == RouteInit /\ [][RouteNext]_vars

(* ----------------------------- state machine --------------------------- *)
\* getDesiredStatus without the default for an unset DesiredStatus
GetDesiredStatusNoDefault(w) == w.desired

\* getDesiredStatus
GetDesiredStatus(w) ==
    IF w.desired = "" THEN DefaultDesiredStatus ELSE w.desired

\* What a tick hands back: the calls made, the ctrl.Result, the error, the
\* stored workspace and the cluster after the tick, and the observations the
\* tick made.
NoObs ==
    [path |-> "", deploymentDeleted |-> FALSE, serviceDeleted |-> FALSE,
     accessError |-> FALSE, accessResourcesDeleted |-> FALSE,
     deploymentReady |-> FALSE, serviceReady |-> FALSE,
     template |-> "none", violations |-> 0, probe |-> "none", stop |-> "none",
     namesRecorded |-> FALSE]

Outcome(log, requeue, err, w, c, obs) ==
    [log |-> log, requeue |-> requeue, err |-> err, w |-> w, c |-> c, obs |-> obs]

\* A StatusManager update: the call is logged with the phase it writes and
\* whether the write succeeded (arg 1) or failed (arg 0).
StatusWrite(w, op, phase, ok) ==
    [log |-> <<[op |-> op, kind |-> phase, arg |-> IF ok THEN 1 ELSE 0]>>, w |-> w]

\* The branch taken once both delete requests were accepted
\* (reconcileDesiredStoppedStatus, after the three observations).
StoppedBranchIgnoringAccessError(deploymentDeleted, serviceDeleted, accessError, accessResourcesDeleted) ==
    IF deploymentDeleted /\ serviceDeleted
    THEN IF ~accessResourcesDeleted THEN "stopping" ELSE "stopped"
    ELSE IF deploymentDeleted \/ serviceDeleted THEN "stopping" ELSE "unexpected"

\* the branch that treats neither resource deleted like one of them deleted
StoppedBranchNeverUnexpected(deploymentDeleted, serviceDeleted, accessError, accessResourcesDeleted) ==
    IF deploymentDeleted /\ serviceDeleted
    THEN IF accessError THEN "accessError"
         ELSE IF ~accessResourcesDeleted THEN "stopping" ELSE "stopped"
    ELSE "stopping"

StoppedBranch(deploymentDeleted, serviceDeleted, accessError, accessResourcesDeleted) ==
    IF deploymentDeleted /\ serviceDeleted
    THEN IF accessError THEN "accessError"
         ELSE IF ~accessResourcesDeleted THEN "stopping" ELSE "stopped"
    ELSE IF deploymentDeleted \/ serviceDeleted THEN "stopping" ELSE "unexpected"

\* reconcileDesiredStoppedStatus.  in: the outcomes of the collaborators'
\* calls in this tick.
ReconcileDesiredStoppedStatus(w, c, in) ==
    LET accessError == in.accessErr
        c1 == [c EXCEPT !.access =
                  IF ~accessError /\ @ = "present" THEN "deleting" ELSE @]
        log1 == <<Call("ReconcileAccessForDesiredStoppedStatus"),
                  Call("EnsureDeploymentDeleted")>>
        obs0 == [NoObs EXCEPT !.path = "Stopped", !.accessError = accessError]
    IN
    IF in.deploymentErr
    THEN LET s == StatusWrite(w, "UpdateErrorStatus", "Error", in.statusOk)
         IN Outcome(log1 \o s.log, PollRequeueDelay, "failed to get deployment",
                    s.w, c1, obs0)
    ELSE
    LET deployment == DeletedObject(c1.deployment, in.deploymentFresh)
        c2 == [c1 EXCEPT !.deployment = AfterDeleteRequest(@)]
        log2 == Append(log1, Call("EnsureServiceDeleted"))
    IN
    IF in.serviceErr
    THEN LET s == StatusWrite(w, "UpdateErrorStatus", "Error", in.statusOk)
         IN Outcome(log2 \o s.log, PollRequeueDelay, "failed to get service",
                    s.w, c2, obs0)
    ELSE
    LET service == DeletedObject(c2.service, in.serviceFresh)
        c3 == [c2 EXCEPT !.service = AfterDeleteRequest(@)]
        deploymentDeleted == IsMissingOrDeleting(deployment)
        serviceDeleted == IsMissingOrDeleting(service)
        accessResourcesDeleted == AreAccessResourcesDeleted(c3.access)
        obs == [obs0 EXCEPT !.deploymentDeleted = deploymentDeleted,
                            !.serviceDeleted = serviceDeleted,
                            !.accessResourcesDeleted = accessResourcesDeleted]
        branch == StoppedBranch(deploymentDeleted, serviceDeleted,
                                accessError, accessResourcesDeleted)
    IN
    CASE branch = "accessError" ->
            LET s == StatusWrite(w, "UpdateErrorStatus", "Error", in.statusOk)
            IN Outcome(log2 \o s.log, PollRequeueDelay, "access cleanup failed",
                       s.w, c3, obs)
      [] branch = "stopping" ->
            LET s == StatusWrite(w, "UpdateStoppingStatus", "Stopping", in.statusOk)
            IN Outcome(log2 \o s.log, PollRequeueDelay,
                       IF in.statusOk THEN NoError ELSE "status update failed",
                       s.w, c3, obs)
      [] branch = "stopped" ->
            LET s == StatusWrite(w, "UpdateStoppedStatus", "Stopped", in.statusOk)
                log3 == Append(log2, Event("Normal", "WorkspaceStopped", 0))
            IN IF in.statusOk
               THEN Outcome(log3 \o s.log, NoRequeue, NoError, s.w, c3, obs)
               ELSE Outcome(log3 \o s.log, PollRequeueDelay, "status update failed",
                            s.w, c3, obs)
      [] OTHER ->
            LET s == StatusWrite(w, "UpdateErrorStatus", "Error", in.statusOk)
            IN Outcome(log2 \o s.log, PollRequeueDelay, "unexpected state",
                       s.w, c3, obs)

\* shouldCheckIdleNow that is always due
ShouldCheckIdleAlways(lastChecked, t) == TRUE

\* shouldCheckIdleNow: time.Since(LastChecked) >= IdleCheckInterval, or no
\* check recorded yet.  lastChecked is {} when unset, {t} when set.
ShouldCheckIdleNow(lastChecked, t) ==
    \/ lastChecked = {}
    \/ \E c \in lastChecked : t - c >= IdleCheckInterval

\* shouldStopDueToIdle with >= in place of >
ShouldStopAtTimeout(lastActivity, timeoutMinutes, t) ==
    /\ lastActivity # {}
    /\ \E a \in lastActivity : t - a >= timeoutMinutes * Minute

\* shouldStopDueToIdle: lastActivity is {} when Status.IdleShutdown or its
\* LastActivity is nil, {t} when set.
ShouldStopDueToIdle(lastActivity, timeoutMinutes, t) ==
    IF lastActivity = {}
    THEN FALSE
    ELSE LET timeout == timeoutMinutes * Minute
             idleTime == t - (CHOOSE a \in lastActivity : TRUE)
         IN idleTime > timeout

\* stopWorkspaceDueToIdle with the event recorded after the spec update
StopWorkspaceUpdateFirst(w, ok) ==
    [log |-> <<[op |-> "client.Update", kind |-> "", arg |-> IF ok THEN 1 ELSE 0],
               Event("Normal", "IdleShutdown", w.timeout)>>,
     w |-> IF ok THEN [w EXCEPT !.desired = "Stopped"] ELSE w,
     requeue |-> IF ok THEN NoRequeue ELSE PollRequeueDelay,
     err |-> IF ok THEN NoError ELSE "spec update failed"]

\* stopWorkspaceDueToIdle: w is the stored workspace, ok the outcome of
\* client.Update.
StopWorkspaceDueToIdle(w, ok) ==
    [log |-> <<Event("Normal", "IdleShutdown", w.timeout),
               [op |-> "client.Update", kind |-> "", arg |-> IF ok THEN 1 ELSE 0]>>,
     w |-> IF ok THEN [w EXCEPT !.desired = "Stopped"] ELSE w,
     requeue |-> IF ok THEN NoRequeue ELSE PollRequeueDelay,
     err |-> IF ok THEN NoError ELSE "spec update failed"]

\* checkAndUpdateIdleStatus that drops the in-memory idle status when the
\* check fails
CheckAndUpdateIdleStatusForgettingOnFailure(w, t, in) ==
    LET log1 == <<Call("CheckWorkspaceIdle")>> IN
    IF in.probe \in {"fail", "unparsable"}
    THEN [log |-> log1, mem |-> [w EXCEPT !.lastActivity = {}], w |-> w,
          err |-> "idle check failed"]
    ELSE
    LET lastActivity == {in.probeTime}
        needsUpdate == w.lastActivity = {} \/ w.lastActivity # lastActivity
        mem == [w EXCEPT !.lastActivity = lastActivity, !.lastChecked = {t}]
    IN IF needsUpdate
       THEN [log |-> Append(log1, Call("Status.Update")), mem |-> mem,
             w |-> IF in.idleStatusOk THEN mem ELSE w,
             err |-> IF in.idleStatusOk THEN NoError ELSE "status update failed"]
       ELSE [log |-> log1, mem |-> mem, w |-> w, err |-> NoError]

\* checkAndUpdateIdleStatus with updateIdleStatusIfChanged.  mem is the
\* reconciler's in-memory workspace, w the stored one; only a Status().Update
\* that succeeds brings the in-memory idle status into the store.
CheckAndUpdateIdleStatus(w, t, in) ==
    LET log1 == <<Call("CheckWorkspaceIdle")>> IN
    IF in.probe = "fail"
    THEN [log |-> log1, mem |-> w, w |-> w, err |-> "idle check failed"]
    ELSE IF in.probe = "unparsable"
    THEN [log |-> log1, mem |-> w, w |-> w, err |-> "parse failed"]
    ELSE
    LET lastActivity == {in.probeTime}
        needsUpdate == w.lastActivity = {} \/ w.lastActivity # lastActivity
        mem == [w EXCEPT !.lastActivity = lastActivity, !.lastChecked = {t}]
    IN IF needsUpdate
       THEN [log |-> Append(log1, Call("Status.Update")), mem |-> mem,
             w |-> IF in.idleStatusOk THEN mem ELSE w,
             err |-> IF in.idleStatusOk THEN NoError ELSE "status update failed"]
       ELSE [log |-> log1, mem |-> mem, w |-> w, err |-> NoError]

\* handleIdleShutdownForRunningWorkspace that returns the error of the idle check
HandleIdleShutdownFailingOnCheckError(w, t, in) ==
    IF w.idle # "enabled"
    THEN [log |-> <<>>, w |-> w, requeue |-> NoRequeue, err |-> NoError,
          probe |-> "none", stop |-> "none"]
    ELSE IF ShouldCheckIdleNow(w.lastChecked, t)
    THEN LET chk == CheckAndUpdateIdleStatus(w, t, in)
             decided == ShouldStopDueToIdle(chk.mem.lastActivity, w.timeout, t)
         IN IF chk.err # NoError
            THEN [log |-> chk.log, w |-> chk.w, requeue |-> PollRequeueDelay,
                  err |-> chk.err, probe |-> in.probe, stop |-> "none"]
            ELSE IF decided
            THEN LET s == StopWorkspaceDueToIdle(chk.w, in.specUpdateOk)
                 IN [log |-> chk.log \o s.log, w |-> s.w, requeue |-> s.requeue,
                     err |-> s.err, probe |-> in.probe, stop |-> "true"]
            ELSE [log |-> chk.log, w |-> chk.w, requeue |-> IdleRequeueDelay,
                  err |-> NoError, probe |-> in.probe, stop |-> "false"]
    ELSE [log |-> <<>>, w |-> w, requeue |-> IdleRequeueDelay, err |-> NoError,
          probe |-> "none", stop |-> "none"]

\* handleIdleShutdownForRunningWorkspace that polls even when idle shutdown
\* is not enabled
HandleIdleShutdownAlwaysPolling(w, t, in) ==
    IF w.idle # "enabled"
    THEN [log |-> <<>>, w |-> w, requeue |-> IdleRequeueDelay, err |-> NoError,
          probe |-> "none", stop |-> "none"]
    ELSE IF ShouldCheckIdleNow(w.lastChecked, t)
    THEN LET chk == CheckAndUpdateIdleStatus(w, t, in)
             decided == ShouldStopDueToIdle(chk.mem.lastActivity, w.timeout, t)
         IN IF decided
            THEN LET s == StopWorkspaceDueToIdle(chk.w, in.specUpdateOk)
                 IN [log |-> chk.log \o s.log, w |-> s.w, requeue |-> s.requeue,
                     err |-> s.err, probe |-> in.probe, stop |-> "true"]
            ELSE [log |-> chk.log, w |-> chk.w, requeue |-> IdleRequeueDelay,
                  err |-> NoError, probe |-> in.probe, stop |-> "false"]
    ELSE [log |-> <<>>, w |-> w, requeue |-> IdleRequeueDelay, err |-> NoError,
          probe |-> "none", stop |-> "none"]

\* handleIdleShutdownForRunningWorkspace that stops the workspace at every
\* idle check, whatever shouldStopDueToIdle says
HandleIdleShutdownStoppingAtEveryCheck(w, t, in) ==
    IF w.idle # "enabled"
    THEN [log |-> <<>>, w |-> w, requeue |-> NoRequeue, err |-> NoError,
          probe |-> "none", stop |-> "none"]
    ELSE IF ShouldCheckIdleNow(w.lastChecked, t)
    THEN LET chk == CheckAndUpdateIdleStatus(w, t, in)
             decided == ShouldStopDueToIdle(chk.mem.lastActivity, w.timeout, t)
             s == StopWorkspaceDueToIdle(chk.w, in.specUpdateOk)
         IN [log |-> chk.log \o s.log, w |-> s.w, requeue |-> s.requeue,
             err |-> s.err, probe |-> in.probe,
             stop |-> IF decided THEN "true" ELSE "false"]
    ELSE [log |-> <<>>, w |-> w, requeue |-> IdleRequeueDelay, err |-> NoError,
          probe |-> "none", stop |-> "none"]

\* handleIdleShutdownForRunningWorkspace
HandleIdleShutdownForRunningWorkspace(w, t, in) ==
    IF w.idle # "enabled"
    THEN [log |-> <<>>, w |-> w, requeue |-> NoRequeue, err |-> NoError,
          probe |-> "none", stop |-> "none"]
    ELSE IF ShouldCheckIdleNow(w.lastChecked, t)
    THEN LET chk == CheckAndUpdateIdleStatus(w, t, in)
             decided == ShouldStopDueToIdle(chk.mem.lastActivity, w.timeout, t)
         IN IF decided
            THEN LET s == StopWorkspaceDueToIdle(chk.w, in.specUpdateOk)
                 IN [log |-> chk.log \o s.log, w |-> s.w, requeue |-> s.requeue,
                     err |-> s.err, probe |-> in.probe, stop |-> "true"]
            ELSE [log |-> chk.log, w |-> chk.w, requeue |-> IdleRequeueDelay,
                  err |-> NoError, probe |-> in.probe, stop |-> "false"]
    ELSE [log |-> <<>>, w |-> w, requeue |-> IdleRequeueDelay, err |-> NoError,
          probe |-> "none", stop |-> "none"]

\* handleTemplateValidation that lets the tick continue after a system error
HandleTemplateValidationIgnoringError(w, in) ==
    IF ~w.templateRef
    THEN [log |-> <<>>, w |-> w, shouldContinue |-> TRUE, err |-> NoError]
    ELSE LET log1 == <<Call("ValidateAndResolveTemplate")>> IN
    CASE in.template = "error" ->
            LET s == StatusWrite(w, "UpdateErrorStatus", "Error", in.statusOk)
            IN [log |-> log1 \o s.log, w |-> s.w, shouldContinue |-> TRUE,
                err |-> "template validation failed"]
      [] in.template = "invalid" ->
            LET s == StatusWrite(w, "SetInvalid", "Invalid", in.statusOk)
            IN [log |-> Append(log1, Event("Warning", "ValidationFailed", in.violations))
                          \o s.log,
                w |-> s.w, shouldContinue |-> FALSE, err |-> NoError]
      [] OTHER ->
            [log |-> Append(log1, Event("Normal", "Validated", 0)), w |-> w,
             shouldContinue |-> TRUE, err |-> NoError]

\* handleTemplateValidation that lets a rejected workspace continue
HandleTemplateValidationContinuing(w, in) ==
    IF ~w.templateRef
    THEN [log |-> <<>>, w |-> w, shouldContinue |-> TRUE, err |-> NoError]
    ELSE LET log1 == <<Call("ValidateAndResolveTemplate")>> IN
    CASE in.template = "error" ->
            LET s == StatusWrite(w, "UpdateErrorStatus", "Error", in.statusOk)
            IN [log |-> log1 \o s.log, w |-> s.w, shouldContinue |-> FALSE,
                err |-> "template validation failed"]
      [] in.template = "invalid" ->
            LET s == StatusWrite(w, "SetInvalid", "Invalid", in.statusOk)
            IN [log |-> Append(log1, Event("Warning", "ValidationFailed", in.violations))
                          \o s.log,
                w |-> s.w, shouldContinue |-> TRUE, err |-> NoError]
      [] OTHER ->
            [log |-> Append(log1, Event("Normal", "Validated", 0)), w |-> w,
             shouldContinue |-> TRUE, err |-> NoError]

\* handleTemplateValidation.  in.template is the outcome of
\* ValidateAndResolveTemplate: "error" (system error), "invalid" (Valid =
\* false, in.violations violations) or "valid".
HandleTemplateValidation(w, in) ==
    IF ~w.templateRef
    THEN [log |-> <<>>, w |-> w, shouldContinue |-> TRUE, err |-> NoError]
    ELSE LET log1 == <<Call("ValidateAndResolveTemplate")>> IN
    CASE in.template = "error" ->
            LET s == StatusWrite(w, "UpdateErrorStatus", "Error", in.statusOk)
            IN [log |-> log1 \o s.log, w |-> s.w, shouldContinue |-> FALSE,
                err |-> "template validation failed"]
      [] in.template = "invalid" ->
            LET s == StatusWrite(w, "SetInvalid", "Invalid", in.statusOk)
            IN [log |-> Append(log1, Event("Warning", "ValidationFailed", in.violations))
                          \o s.log,
                w |-> s.w, shouldContinue |-> FALSE, err |-> NoError]
      [] OTHER ->
            [log |-> Append(log1, Event("Normal", "Validated", 0)), w |-> w,
             shouldContinue |-> TRUE, err |-> NoError]

\* the requeue returned when handleTemplateValidation says not to continue
TemplateStopRequeue == PollRequeueDelay

\* compute readiness that looks at the deployment only
DeploymentReadyOnly(deploymentReady, serviceReady) == deploymentReady

\* the condition under which access-strategy provisioning is applied
ComputeReady(deploymentReady, serviceReady) == deploymentReady /\ serviceReady

\* the ready branch that records the WorkspaceRunning event only once the
\* Running status update succeeded
ReadyBranchEventAfterUpdate(w, c, t, in, log, obs0) ==
    LET obs == [obs0 EXCEPT !.accessError = in.accessErr]
        log1 == Append(log, Call("ReconcileAccessForDesiredRunningStatus"))
    IN
    IF in.accessErr
    THEN Outcome(log1, PollRequeueDelay, "access provisioning failed", w, c, obs)
    ELSE
    LET c1 == [c EXCEPT !.access = "present"]
        s == StatusWrite(w, "UpdateRunningStatus", "Running", in.statusOk)
        log2 == Append(log1 \o s.log, Event("Normal", "WorkspaceRunning", 0))
    IN IF ~in.statusOk
       THEN Outcome(log1 \o s.log, PollRequeueDelay, "status update failed",
                    s.w, c1, obs)
       ELSE LET h == HandleIdleShutdownForRunningWorkspace(s.w, t, in)
            IN Outcome(log2 \o h.log, h.requeue, h.err, h.w, c1,
                       [obs EXCEPT !.probe = h.probe, !.stop = h.stop])

\* the ready branch that marks Running whatever access provisioning returned
ReadyBranchIgnoringAccess(w, c, t, in, log, obs0) ==
    LET obs == [obs0 EXCEPT !.accessError = in.accessErr]
        log1 == Append(Append(log, Call("ReconcileAccessForDesiredRunningStatus")),
                       Event("Normal", "WorkspaceRunning", 0))
        c1 == [c EXCEPT !.access = IF in.accessErr THEN @ ELSE "present"]
        s == StatusWrite(w, "UpdateRunningStatus", "Running", in.statusOk)
    IN IF ~in.statusOk
       THEN Outcome(log1 \o s.log, PollRequeueDelay, "status update failed",
                    s.w, c1, obs)
       ELSE LET h == HandleIdleShutdownForRunningWorkspace(s.w, t, in)
            IN Outcome(log1 \o s.log \o h.log, h.requeue, h.err, h.w, c1,
                       [obs EXCEPT !.probe = h.probe, !.stop = h.stop])

\* reconcileDesiredRunningStatus, the branch where compute is ready
ReadyBranch(w, c, t, in, log, obs0) ==
    LET obs == [obs0 EXCEPT !.accessError = in.accessErr]
        log1 == Append(log, Call("ReconcileAccessForDesiredRunningStatus"))
    IN
    IF in.accessErr
    THEN Outcome(log1, PollRequeueDelay, "access provisioning failed", w, c, obs)
    ELSE
    LET c1 == [c EXCEPT !.access = "present"]
        log2 == Append(log1, Event("Normal", "WorkspaceRunning", 0))
        s == StatusWrite(w, "UpdateRunningStatus", "Running", in.statusOk)
    IN IF ~in.statusOk
       THEN Outcome(log2 \o s.log, PollRequeueDelay, "status update failed",
                    s.w, c1, obs)
       ELSE LET h == HandleIdleShutdownForRunningWorkspace(s.w, t, in)
            IN Outcome(log2 \o s.log \o h.log, h.requeue, h.err, h.w, c1,
                       [obs EXCEPT !.probe = h.probe, !.stop = h.stop])

\* reconcileDesiredRunningStatus
ReconcileDesiredRunningStatus(w, c, t, in) ==
    LET v == HandleTemplateValidation(w, in)
        obs0 == [NoObs EXCEPT !.path = "Running",
                              !.template = IF w.templateRef THEN in.template ELSE "none",
                              !.violations = IF w.templateRef /\ in.template = "invalid"
                                             THEN in.violations ELSE 0]
    IN
    IF ~v.shouldContinue
    THEN Outcome(v.log, TemplateStopRequeue, v.err, v.w, c, obs0)
    ELSE
    LET log1 == Append(v.log, Call("EnsurePVCExists")) IN
    IF in.pvcErr
    THEN LET s == StatusWrite(w, "UpdateErrorStatus", "Error", in.statusOk)
         IN Outcome(log1 \o s.log, PollRequeueDelay, "failed to ensure PVC exists",
                    s.w, c, obs0)
    ELSE
    LET log2 == Append(log1, Call("EnsureDeploymentExists")) IN
    IF in.deploymentErr
    THEN LET s == StatusWrite(w, "UpdateErrorStatus", "Error", in.statusOk)
         IN Outcome(log2 \o s.log, PollRequeueDelay,
                    "failed to ensure deployment exists", s.w, c, obs0)
    ELSE
    LET c1 == [c EXCEPT !.deployment = AfterEnsureExists(@)]
        log3 == Append(log2, Call("EnsureServiceExists"))
    IN
    IF in.serviceErr
    THEN LET s == StatusWrite(w, "UpdateErrorStatus", "Error", in.statusOk)
         IN Outcome(log3 \o s.log, PollRequeueDelay,
                    "failed to ensure service exists", s.w, c1, obs0)
    ELSE
    LET c2 == [c1 EXCEPT !.service = IF in.serviceReady THEN "present" ELSE @]
        deploymentReady == c2.deployment = "available"
        serviceReady == in.serviceReady
        obs == [obs0 EXCEPT !.deploymentReady = deploymentReady,
                            !.serviceReady = serviceReady]
    IN
    IF ComputeReady(deploymentReady, serviceReady)
    THEN ReadyBranch(w, c2, t, in, log3, obs)
    ELSE LET s == StatusWrite(w, "UpdateStartingStatus", "Starting", in.statusOk)
         IN Outcome(log3 \o s.log, PollRequeueDelay,
                    IF in.statusOk THEN NoError ELSE "status update failed",
                    s.w, c2, [obs EXCEPT !.namesRecorded = TRUE])

\* ReconcileDesiredState: the dispatch on the desired status
ReconcileOutcome(w, c, t, in) ==
    LET desiredStatus == GetDesiredStatus(w) IN
    CASE desiredStatus = "Stopped" -> ReconcileDesiredStoppedStatus(w, c, in)
      [] desiredStatus = "Running" -> ReconcileDesiredRunningStatus(w, c, t, in)
      [] OTHER ->
            LET s == StatusWrite(w, "UpdateErrorStatus", "Error", in.statusOk)
            IN Outcome(s.log, LongRequeueDelay, "unknown desired status", s.w, c,
                       [NoObs EXCEPT !.path = "Unknown"])

(* ------------------- the reconcile model: state and steps -------------- *)
Times == 0..MaxTime
TimeoutChoices == {3, 5}
DesiredChoices == {"", "Running", "Stopped", "Paused"}
IdleChoices == {"nil", "disabled", "enabled"}

\* The outcomes of the collaborators' calls in one tick.  A tick stops at
\* its first failing call, so the outcomes of the calls it never reaches are
\* held at their defaults.
DefaultInputs ==
    [accessErr |-> FALSE, deploymentErr |-> FALSE, serviceErr |-> FALSE,
     pvcErr |-> FALSE, deploymentFresh |-> TRUE, serviceFresh |-> TRUE,
     serviceReady |-> TRUE, statusOk |-> TRUE, template |-> "valid",
     violations |-> 1, probe |-> "fail", probeTime |-> 0,
     idleStatusOk |-> TRUE, specUpdateOk |-> TRUE]

StoppedInputs ==
    {[DefaultInputs EXCEPT !.accessErr = x[1], !.deploymentErr = (x[2] = "deployment"),
                           !.serviceErr = (x[2] = "service"), !.statusOk = x[3]] :
        x \in BOOLEAN \X {"deployment", "service"} \X BOOLEAN}
    \cup
    {[DefaultInputs EXCEPT !.accessErr = x[1], !.deploymentFresh = x[2],
                           !.serviceFresh = x[3], !.statusOk = x[4]] :
        x \in BOOLEAN \X BOOLEAN \X BOOLEAN \X BOOLEAN}

TemplateInputs ==
    {[DefaultInputs EXCEPT !.template = x[1], !.violations = x[2], !.statusOk = x[3]] :
        x \in {"error", "invalid"} \X (1..MaxViolations) \X BOOLEAN}

EnsureInputs ==
    {[DefaultInputs EXCEPT !.pvcErr = (x[1] = "pvc"), !.deploymentErr = (x[1] = "deployment"),
                           !.serviceErr = (x[1] = "service"), !.statusOk = x[2]] :
        x \in {"pvc", "deployment", "service"} \X BOOLEAN}

ReadinessInputs ==
    {[DefaultInputs EXCEPT !.serviceReady = x[1], !.accessErr = x[2], !.statusOk = x[3]] :
        x \in (BOOLEAN \X BOOLEAN \X BOOLEAN) \ {<<TRUE, FALSE, TRUE>>}}

\* the probe reports activity at the epoch or at the instant of the tick
IdleInputs(t) ==
    {[DefaultInputs EXCEPT !.probe = x[1], !.specUpdateOk = x[2]] :
        x \in {"fail", "unparsable"} \X BOOLEAN}
    \cup
    {[DefaultInputs EXCEPT !.probe = "ok", !.probeTime = x[1],
                           !.idleStatusOk = x[2], !.specUpdateOk = x[3]] :
        x \in {0, t} \X BOOLEAN \X BOOLEAN}

\* the idle handling is reached only with idle shutdown enabled and the
\* deployment available
ReachesIdleHandling(w, c) ==
    /\ GetDesiredStatus(w) = "Running"
    /\ w.idle = "enabled"
    /\ c.deployment = "available"

\* The instants at which a tick can run: the clock never runs behind a
\* timestamp the engine stored earlier.
TickTimes(w) ==
    {t \in Times : \A s \in w.lastChecked \cup w.lastActivity : t >= s}

\* The pairs <<instant, inputs>> of one tick.  The clock is read only by the
\* idle handling, so a tick that does not get there runs at instant 0.
RunningChoices(w, c) ==
    ({0} \X ((IF w.templateRef THEN TemplateInputs ELSE {})
             \cup EnsureInputs \cup ReadinessInputs))
    \cup (IF ReachesIdleHandling(w, c)
          THEN UNION {{t} \X IdleInputs(t) : t \in TickTimes(w)}
          ELSE {0} \X {DefaultInputs})

TickChoices(w, c) ==
    CASE GetDesiredStatus(w) = "Stopped" -> {0} \X StoppedInputs
      [] GetDesiredStatus(w) = "Running" -> RunningChoices(w, c)
      [] OTHER -> {0} \X {[DefaultInputs EXCEPT !.statusOk = ok] : ok \in BOOLEAN}

NoTick ==
    [log |-> <<>>, requeue |-> NoRequeue, err |-> NoError, obs |-> NoObs,
     desired |-> "", at |-> 0]

SMInit ==
    /\ ws \in [desired : DesiredChoices, templateRef : BOOLEAN, idle : IdleChoices,
               timeout : TimeoutChoices,
               lastActivity : {{}}, lastChecked : {{}}]
    /\ ws.idle # "enabled" => ws.timeout = 3
    /\ cluster = [deployment |-> "absent", service |-> "absent", access |-> "absent"]
    /\ last = NoTick
    /\ idleIn = [lastActivity |-> {}, timeoutMinutes |-> 0, now |-> 0]
    /\ idleOut = "unset"
    /\ ssmClient = TRUE
    /\ pod = NewPod
    /\ stateFile = NoStateFile
    /\ inv = EmptyBag
    /\ returned = NoReturn
    /\ registered = FALSE
    /\ listening = FALSE
    /\ execs = NoExecs
    /\ admission = NoAdmission
    /\ connection = NoConnection
    /\ route = NoRoute
    /\ wsStatus = NoStatus
    /\ writers = [w \in Writers |-> IdleWriter]
    /\ upserted = NoUpserts
    /\ broker = NoBroker
    /\ idleProbe = NoProbe
    /\ envMerge = NoMerge

\* one reconcile tick of the workspace, run at instant t
ReconcileDesiredState ==
    \E x \in TickChoices(ws, cluster) :
      \E o \in {ReconcileOutcome(ws, cluster, x[1], x[2])} :
        /\ ws' = o.w
        /\ cluster' = o.c
        /\ last' = [log |-> o.log, requeue |-> o.requeue, err |-> o.err,
                    obs |-> o.obs, desired |-> ws.desired, at |-> x[1]]

\* the deployment controller brings the pod up
DeploymentBecomesAvailable ==
    /\ cluster.deployment = "pending"
    /\ cluster' = [cluster EXCEPT !.deployment = "available"]
    /\ last' = NoTick
    /\ UNCHANGED ws

\* the cluster finishes a requested deletion
DeletionCompletes ==
    /\ \E r \in {"deployment", "service", "access"} :
          /\ cluster[r] = "deleting"
          /\ cluster' = [cluster EXCEPT ![r] = "absent"]
    /\ last' = NoTick
    /\ UNCHANGED ws

\* the user edits Spec.DesiredStatus
UserSetsDesiredStatus ==
    /\ \E d \in {"Running", "Stopped"} :
          /\ d # ws.desired
          /\ ws' = [ws EXCEPT !.desired = d]
    /\ last' = NoTick
    /\ UNCHANGED cluster

SMNext ==
    \/ ReconcileDesiredState /\ UNCHANGED <<idleVars, setupVars, retryVars, statusVars, fnVars>>
    \/ DeploymentBecomesAvailable /\ UNCHANGED <<idleVars, setupVars, retryVars, statusVars, fnVars>>
    \/ DeletionCompletes /\ UNCHANGED <<idleVars, setupVars, retryVars, statusVars, fnVars>>
    \/ UserSetsDesiredStatus /\ UNCHANGED <<idleVars, setupVars, retryVars, statusVars, fnVars>>

SpecSM == SMInit /\ [][SMNext]_vars

(* ------------------ idle arithmetic: shouldStopDueToIdle --------------- *)
\* the inputs of one call; the reconcile variables stay as they are
IdleInit ==
    /\ idleIn \in [lastActivity : {{}} \cup {{a} : a \in 0..MaxIdleTime},
                   timeoutMinutes : 0..MaxTimeoutMinutes,
                   now : 0..MaxIdleTime]
    /\ idleOut = "unset"
    /\ ws = [desired |-> "Running", templateRef |-> FALSE, idle |-> "enabled",
             timeout |-> 3, lastActivity |-> {}, lastChecked |-> {}]
    /\ cluster = [deployment |-> "absent", service |-> "absent", access |-> "absent"]
    /\ last = NoTick
    /\ ssmClient = TRUE
    /\ pod = NewPod
    /\ stateFile = NoStateFile
    /\ inv = EmptyBag
    /\ returned = NoReturn
    /\ registered = FALSE
    /\ listening = FALSE
    /\ execs = NoExecs
    /\ admission = NoAdmission
    /\ connection = NoConnection
    /\ route = NoRoute
    /\ wsStatus = NoStatus
    /\ writers = [w \in Writers |-> IdleWriter]
    /\ upserted = NoUpserts
    /\ broker = NoBroker
    /\ idleProbe = NoProbe
    /\ envMerge = NoMerge

\* one call of shouldStopDueToIdle
EvalShouldStopDueToIdle ==
    /\ idleOut = "unset"
    /\ idleOut' = IF ShouldStopDueToIdle(idleIn.lastActivity, idleIn.timeoutMinutes,
                                         idleIn.now)
                  THEN "true" ELSE "false"
    /\ UNCHANGED <<idleIn, ws, cluster, last, setupVars, retryVars, statusVars, fnVars>>

IdleNext == EvalShouldStopDueToIdle

SpecIdle == IdleInit /\ [][IdleNext]_vars

(* ================================ claims =============================== *)
\* the entry of the first call of op in the log of the last tick
LastCall(op) == last.log[FirstIndex(last.log, op)]
\* a status write or spec update of the last tick that succeeded
Succeeded(op) == Called(last.log, op) /\ LastCall(op).arg = 1
AllGone ==
    /\ last.obs.deploymentDeleted
    /\ last.obs.serviceDeleted
    /\ ~last.obs.accessError
    /\ last.obs.accessResourcesDeleted

\* C1: on the Stopped path the Stopped status write, the WorkspaceStopped
\* event and the empty result (no requeue, nil error) occur only in a tick
\* that observed the deployment and the service missing-or-deleting, no
\* access cleanup error and the access resources deleted; every other
\* outcome of a Stopped-path tick requeues at PollRequeueDelay.
C1_StoppedOnlyWhenAllGone ==
    last.obs.path = "Stopped" =>
        /\ Called(last.log, "UpdateStoppedStatus") => AllGone
        /\ Called(last.log, "Event:WorkspaceStopped") => AllGone
        /\ last.requeue = NoRequeue =>
              /\ AllGone
              /\ last.err = NoError
              /\ Succeeded("UpdateStoppedStatus")
              /\ Before(last.log, "Event:WorkspaceStopped", "UpdateStoppedStatus")
        /\ last.requeue # NoRequeue => last.requeue = PollRequeueDelay
        /\ (AllGone /\ Succeeded("UpdateStoppedStatus")) => last.requeue = NoRequeue

C1_Witness ==
    /\ last.obs.path = "Stopped"
    /\ last.requeue = NoRequeue
    /\ Succeeded("UpdateStoppedStatus")

\* C2: on the Running path the Running status is written only in a tick
\* that observed the deployment available and the service existing and in
\* which access provisioning returned nil; when access provisioning fails
\* the tick returns that error with PollRequeueDelay and writes no Running
\* status.
C2_RunningOnlyWhenReadyAndProvisioned ==
    last.obs.path = "Running" =>
        /\ Called(last.log, "UpdateRunningStatus") =>
              /\ last.obs.deploymentReady
              /\ last.obs.serviceReady
              /\ ~last.obs.accessError
              /\ Before(last.log, "ReconcileAccessForDesiredRunningStatus",
                        "UpdateRunningStatus")
        /\ last.obs.accessError =>
              /\ last.err = "access provisioning failed"
              /\ last.requeue = PollRequeueDelay
              /\ ~Called(last.log, "UpdateRunningStatus")
              /\ ~Called(last.log, "Event:WorkspaceRunning")

C2_Witness ==
    /\ last.obs.path = "Running"
    /\ Succeeded("UpdateRunningStatus")
    /\ last.obs.deploymentReady
    /\ last.obs.serviceReady

\* C3: a policy violation (TemplateRef set, Valid = false, no system error)
\* sets the Invalid status, emits a warning event carrying the violation
\* count, returns a nil error and makes no EnsurePVCExists,
\* EnsureDeploymentExists or EnsureServiceExists call.
C3_PolicyViolationMarksInvalid ==
    last.obs.template = "invalid" =>
        /\ Called(last.log, "SetInvalid")
        /\ LastCall("SetInvalid").kind = "Invalid"
        /\ Called(last.log, "Event:ValidationFailed")
        /\ LastCall("Event:ValidationFailed").kind = "Warning"
        /\ LastCall("Event:ValidationFailed").arg = last.obs.violations
        /\ last.err = NoError
        /\ ~Called(last.log, "EnsurePVCExists")
        /\ ~Called(last.log, "EnsureDeploymentExists")
        /\ ~Called(last.log, "EnsureServiceExists")

C3_Witness ==
    /\ last.obs.template = "invalid"
    /\ last.obs.violations = 2
    /\ Succeeded("SetInvalid")

\* C4: after a policy violation marked the workspace Invalid, the result of
\* the tick carries no requeue delay.
C4_NoRequeueAfterInvalid ==
    last.obs.template = "invalid" => last.requeue = NoRequeue

\* C5 as stated: when the idle timeout is exceeded the engine sets
\* DesiredStatus to Stopped, persists the spec update, then emits the
\* IdleShutdown event, and returns requeue delay 0 with a nil error.
C5_UpdateThenEvent ==
    last.obs.stop = "true" =>
        /\ ws.desired = "Stopped"
        /\ Before(last.log, "client.Update", "Event:IdleShutdown")
        /\ last.requeue = NoRequeue
        /\ last.err = NoError

\* C5 amended: when the idle timeout is exceeded the engine first emits the
\* IdleShutdown event, then sets DesiredStatus to Stopped and persists the
\* spec update; when the update succeeds the stored DesiredStatus is Stopped
\* and the tick returns requeue delay 0 with a nil error, when it fails the
\* stored DesiredStatus is unchanged and the tick returns the error with
\* PollRequeueDelay.
C5_EventThenUpdate ==
    last.obs.stop = "true" =>
        /\ Before(last.log, "Event:IdleShutdown", "client.Update")
        /\ Succeeded("client.Update") =>
              /\ ws.desired = "Stopped"
              /\ last.requeue = NoRequeue
              /\ last.err = NoError
        /\ ~Succeeded("client.Update") =>
              /\ ws.desired = last.desired
              /\ last.requeue = PollRequeueDelay
              /\ last.err = "spec update failed"

C5_Witness ==
    /\ last.obs.stop = "true"
    /\ Succeeded("client.Update")
    /\ ws.desired = "Stopped"

\* C6: shouldStopDueToIdle is true exactly when LastActivity is set and the
\* time since it is strictly greater than TimeoutMinutes minutes (10 minutes
\* idle with timeout 5: true; 4 minutes with timeout 5: false; idle time
\* equal to the timeout: false; LastActivity unset: false).
C6_StopIffIdleLongerThanTimeout ==
    idleOut # "unset" =>
        /\ (idleOut = "true") <=>
              (\E a \in idleIn.lastActivity : idleIn.now - a > idleIn.timeoutMinutes)
        /\ idleIn.lastActivity = {} => idleOut = "false"
        /\ (idleIn.timeoutMinutes = 5 /\ idleIn.lastActivity = {idleIn.now - 10})
              => idleOut = "true"
        /\ (idleIn.timeoutMinutes = 5 /\ idleIn.lastActivity = {idleIn.now - 4})
              => idleOut = "false"
        /\ idleIn.lastActivity = {idleIn.now - idleIn.timeoutMinutes}
              => idleOut = "false"

C6_Witness ==
    /\ idleOut = "false"
    /\ idleIn.timeoutMinutes = 5
    /\ idleIn.lastActivity = {idleIn.now - 5}

SetupCalls == InFlight \cup (IF returned.done THEN {returned.inv} ELSE {})
\* the call has read the state file
HasRead(c) == Called(c.log, "Exec:readState")
\* the call read a well-formed state whose setupInProgress is as given
ReadState(c, inProgress) ==
    /\ HasRead(c)
    /\ c.read.kind = "state"
    /\ c.read.setupInProgress = inProgress
\* the calls that change something: state write, cleanup, activation,
\* registration, marker, listener start, status update
MutatingOps ==
    {"Exec:writeState", "CleanupManagedInstancesByPodUID",
     "CleanupActivationsByPodUID", "CreateActivation", "Exec:register",
     "Exec:marker", "Exec:startServer", "Status:SSMActivation",
     "Status:SSMManagedInstance"}
MadeNoMutatingCall(c) == \A op \in MutatingOps : ~Called(c.log, op)

\* C8: a SetupContainers call whose state read gave a well-formed state with
\* setupInProgress=true goes no further: it returns nil at once, and the
\* state read is the only call it made (no state write, cleanup,
\* CreateActivation, registration exec, listener start or status update).
C8_InProgressReadMutatesNothing ==
    /\ \A c \in InFlight : ~ReadState(c, TRUE)
    /\ (returned.done /\ ReadState(returned.inv, TRUE)) =>
          /\ returned.ret = NoSetupError
          /\ returned.inv.log = <<Call("Exec:readState")>>
          /\ MadeNoMutatingCall(returned.inv)

\* the call returned on an in-progress state while the call that wrote it
\* is still setting up
C8_Witness ==
    /\ returned.done
    /\ ReadState(returned.inv, TRUE)
    /\ \E c \in InFlight : c.pc = "setup"

\* C9: a SetupContainers call that read a well-formed state (not in
\* progress) whose sidecar restart count is lower than the current one
\* issues CleanupManagedInstancesByPodUID and then CleanupActivationsByPodUID
\* and, when it calls CreateActivation, has issued both before it.
C9_CleanupBeforeCreateActivation ==
    (/\ returned.done
     /\ ReadState(returned.inv, FALSE)
     /\ returned.inv.read.sidecarRestartCount
            < returned.inv.pod.sidecar.restartCount) =>
        LET log == returned.inv.log
        IN /\ Before(log, "CleanupManagedInstancesByPodUID",
                     "CleanupActivationsByPodUID")
           /\ Called(log, "CreateActivation") =>
                 /\ Before(log, "CleanupManagedInstancesByPodUID", "CreateActivation")
                 /\ Before(log, "CleanupActivationsByPodUID", "CreateActivation")
           /\ Cardinality({k \in 1..Len(log) : log[k].op = "CreateActivation"}) <= 1

\* stored sidecar count 1, current 2, and the activation was created
C9_Witness ==
    /\ returned.done
    /\ ReadState(returned.inv, FALSE)
    /\ returned.inv.read.sidecarRestartCount = 1
    /\ returned.inv.pod.sidecar.restartCount = 2
    /\ Called(returned.inv.log, "CreateActivation")

\* what a call that went on to setup did, against its three flags
SetupFollowsFlags(c, ret) ==
    /\ c.needCleanup => c.needSidecarSetup
    /\ Called(c.log, "CleanupManagedInstancesByPodUID") <=> c.needCleanup
    /\ Called(c.log, "CleanupActivationsByPodUID") <=> c.needCleanup
    /\ c.needSidecarSetup =>
          \/ Called(c.log, "CreateActivation")
          \/ ret = "failed to create SSM activation"
    /\ ~c.needSidecarSetup =>
          /\ ~Called(c.log, "CreateActivation")
          /\ ~Called(c.log, "Exec:register")
          /\ (c.needWorkspaceSetup /\ IsContainerRunning(c.pod, "workspace"))
                => Called(c.log, "Exec:startServer")
    /\ Called(c.log, "Exec:startServer") =>
          c.needWorkspaceSetup /\ IsContainerRunning(c.pod, "workspace")

\* C10: the work of a SetupContainers call follows from the state it read
\* and the restart counts of the pod it was given: state absent: sidecar and
\* workspace setup, no cleanup; state corrupt: sidecar and workspace setup
\* with cleanup; well-formed state (not in progress): sidecar setup with
\* cleanup exactly when the sidecar count increased, workspace setup exactly
\* when the workspace count increased (so no cleanup and no CreateActivation
\* when only that one increased); counts equal to the stored ones: nil
\* return, the state read being the only call.  A call that goes on to setup
\* makes the cleanup calls exactly when cleanup was chosen.
C10_WorkChosenFromStateAndCounts ==
    /\ \A c \in SetupCalls :
          LET sidecarIncreased ==
                  c.pod.sidecar.restartCount > c.read.sidecarRestartCount
              workspaceIncreased ==
                  c.pod.workspace.restartCount > c.read.workspaceRestartCount
              flags == <<c.needSidecarSetup, c.needWorkspaceSetup, c.needCleanup>>
          IN /\ (HasRead(c) /\ c.read.kind = "absent") =>
                   /\ flags = <<TRUE, TRUE, FALSE>>
                   /\ Called(c.log, "Exec:writeState") \/ c.pc = "mark"
             /\ (HasRead(c) /\ c.read.kind = "corrupt") =>
                   /\ flags = <<TRUE, TRUE, TRUE>>
                   /\ Called(c.log, "Exec:writeState") \/ c.pc = "mark"
             /\ ReadState(c, FALSE) =>
                   /\ flags = <<sidecarIncreased, workspaceIncreased, sidecarIncreased>>
                   /\ (sidecarIncreased \/ workspaceIncreased) =>
                         Called(c.log, "Exec:writeState") \/ c.pc = "mark"
                   /\ (/\ c.pod.sidecar.restartCount = c.read.sidecarRestartCount
                       /\ c.pod.workspace.restartCount = c.read.workspaceRestartCount) =>
                         /\ c \notin InFlight
                         /\ returned.ret = NoSetupError
                         /\ c.log = <<Call("Exec:readState")>>
                         /\ MadeNoMutatingCall(c)
    /\ (returned.done /\ returned.inv.pc = "final") =>
          SetupFollowsFlags(returned.inv, returned.ret)

\* the restart counts equal the stored ones, after each container restarted
C10_Witness ==
    /\ returned.done
    /\ ReadState(returned.inv, FALSE)
    /\ returned.inv.read.sidecarRestartCount = 1
    /\ returned.inv.read.workspaceRestartCount = 1
    /\ returned.inv.pod.sidecar.restartCount = 1
    /\ returned.inv.pod.workspace.restartCount = 1
    /\ returned.inv.log = <<Call("Exec:readState")>>

\* the errors setupSidecarContainer and setupWorkspaceContainer return
SetupErrors ==
    {"failed to create SSM activation", "failed to execute SSM registration script",
     "failed to extract managed instance ID", "failed to create marker file",
     "failed to start remote access server"}

\* C11: a SetupContainers call that went on to setup ends with exactly one
\* attempt to write the final state, made after every setup call, whether
\* setup failed or not; a successful attempt leaves the state file with the
\* call's restart counts and setupInProgress=false; the value returned is
\* the setup error or nil, never the error of the final write.
C11_FinalWriteThenReturn ==
    (returned.done /\ returned.inv.pc = "final") =>
        LET c == returned.inv
            n == Len(c.log)
        IN /\ n >= 3
           /\ c.log[n].op = "Exec:writeState"
           /\ c.log[n].kind = "final"
           /\ \A k \in 1..(n - 1) : c.log[k].kind # "final"
           /\ c.log[2] = WriteStateCall("inProgress")
           /\ returned.ret \in SetupErrors \cup {NoSetupError}
           /\ returned.finalWrite \in {"ok", "failed"}
           /\ returned.finalWrite = "ok" =>
                 stateFile = RegistrationState(c.pod.sidecar.restartCount,
                                               c.pod.workspace.restartCount, FALSE)

\* registration failed after the activation was created; the final state
\* was written and the registration error returned
C11_Witness ==
    /\ returned.done
    /\ returned.inv.pc = "final"
    /\ returned.ret = "failed to execute SSM registration script"
    /\ Called(returned.inv.log, "CreateActivation")
    /\ returned.finalWrite = "ok"
    /\ stateFile.kind = "state"
    /\ ~stateFile.setupInProgress

\* C12: after a setup that failed partway, the next SetupContainers call
\* with unchanged restart counts sets up again.  As a state predicate: a
\* call that finds the stored counts equal to the counts of the pod as it is
\* now, and so returns without any setup call, finds the running sidecar
\* registered.
C12_FailedSetupIsRetried ==
    (/\ returned.done
     /\ ReadState(returned.inv, FALSE)
     /\ returned.inv.log = <<Call("Exec:readState")>>
     /\ returned.inv.pod = pod
     /\ returned.inv.read.sidecarRestartCount = pod.sidecar.restartCount
     /\ returned.inv.read.workspaceRestartCount = pod.workspace.restartCount) =>
        registered

\* C13: whatever the interleaving of SetupContainers calls for the pod,
\* whose restart counts only grow, a write of the state file never stores a
\* sidecarRestartCount or a workspaceRestartCount lower than the one it
\* replaces.
C13_StoredCountsNeverDecrease ==
    [][(stateFile.kind = "state" /\ stateFile'.kind = "state") =>
          /\ stateFile'.sidecarRestartCount >= stateFile.sidecarRestartCount
          /\ stateFile'.workspaceRestartCount >= stateFile.workspaceRestartCount]_vars

(* -------------------- claims on addResourceToStatus -------------------- *)
EntriesOf(key) ==
    {i \in 1..Len(wsStatus.externalAccessResources) :
        KeyOf(wsStatus.externalAccessResources[i]) = key}

\* C14: whatever the interleaving of the status writers, each of which
\* re-fetches, mutates and updates, retrying on conflict:
\* Status.ExternalAccessResources holds at most one entry per (Provider,
\* ResourceType, podUid); a key never upserted with success has no entry;
\* a key upserted with success has exactly one entry and it carries the
\* ResourceID of the last successful upsert of that key, so an upsert of the
\* same key replaces and no successful upsert is lost to another writer.
C14_UpsertsKeptOncePerKey ==
    \A key \in ResourceKeys :
        /\ Cardinality(EntriesOf(key)) <= 1
        /\ upserted.last[key] = 0 => EntriesOf(key) = {}
        /\ upserted.last[key] # 0 =>
              \E i \in EntriesOf(key) :
                  wsStatus.externalAccessResources[i].resourceID = upserted.last[key]

\* a writer succeeded after a conflict with another writer, a key was
\* upserted twice, and two keys are in the status
C14_Witness ==
    /\ \E w \in Writers :
          /\ writers[w].result = "ok"
          /\ writers[w].kind = "upsert"
          /\ writers[w].attempts >= 1
    /\ Len(wsStatus.externalAccessResources) = 2
    /\ wsStatus.resourceVersion >= 3
    /\ \A i \in 1..Len(wsStatus.externalAccessResources) :
          wsStatus.externalAccessResources[i].resourceID >= 2

(* ------------------ claims on CleanupSSMManagedNodes ------------------- *)
\* C15: a CleanupSSMManagedNodes call made with a broker client calls
\* CleanupManagedInstancesByPodUID and then CleanupActivationsByPodUID,
\* also when the first failed, and returns an error exactly when the
\* activation cleanup failed.
C15_BothCleanupsAttempted ==
    (broker.called /\ ssmClient) =>
        /\ broker.log = <<Call("CleanupManagedInstancesByPodUID"),
                          Call("CleanupActivationsByPodUID")>>
        /\ (broker.err # NoSetupError) <=> ~broker.activationsOk
        /\ broker.activationsOk => broker.activations = 0

\* the managed-instance cleanup failed, the activation cleanup succeeded:
\* the activations are gone, the instances stay, nil is returned
C15_Witness ==
    /\ broker.called
    /\ ssmClient
    /\ ~broker.instancesOk
    /\ broker.activationsOk
    /\ broker.err = NoSetupError
    /\ broker.instances > 0
    /\ broker.activations = 0

(* --------------------- claims on CheckWorkspaceIdle -------------------- *)
\* C16: when the pod is found and the probe is run, CheckWorkspaceIdle maps
\* the probe's outcome by its status: 000 gives the "not ready" error, 404
\* the "wrong path" error, any other status but 200 the "unexpected status"
\* error with the body, and 200 with a JSON body whose lastActiveTimestamp
\* is not empty gives that timestamp and no error, whatever else the body
\* holds.
C16_ProbeOutcomeMapping ==
    (/\ idleProbe.done
     /\ idleProbe.podFound
     /\ idleProbe.clientset
     /\ idleProbe.execOk) =>
        /\ idleProbe.status = "000" =>
              idleProbe.err = "connection refused - app starting"
        /\ idleProbe.status = "404" =>
              idleProbe.err = "endpoint not found - wrong path"
        /\ idleProbe.status \notin {"000", "404", "200"} =>
              /\ idleProbe.err = "unexpected HTTP status"
              /\ idleProbe.errBody = idleProbe.body
        /\ (/\ idleProbe.status = "200"
            /\ idleProbe.json
            /\ LastActivityOf(idleProbe.body) # "") =>
              /\ idleProbe.err = NoError
              /\ idleProbe.lastActivity = LastActivityOf(idleProbe.body)

(* --------------- claims on ApplyAccessStrategyToDeployment ------------- *)
DeclaredNames == {envMerge.mergeEnv[i].name : i \in 1..Len(envMerge.mergeEnv)}
InterpolatedValues(name) ==
    {Interpolate(envMerge.mergeEnv[i].valueTemplate).value :
        i \in {j \in 1..Len(envMerge.mergeEnv) : envMerge.mergeEnv[j].name = name}}
IsUndeclared(v) == v.name \notin DeclaredNames

\* C17: after ApplyAccessStrategyToDeployment succeeds with an access
\* strategy, every entry of the primary container's env whose name the
\* strategy declares carries a value interpolated from the strategy's
\* templates of that name, and the entries with other names are the same
\* entries in the same order as before.
C17_StrategyEnvAlwaysWins ==
    (/\ envMerge.done
     /\ envMerge.strategy
     /\ envMerge.err = NoError) =>
        /\ \A i \in 1..Len(envMerge.result) :
              envMerge.result[i].name \in DeclaredNames =>
                 envMerge.result[i].value
                    \in InterpolatedValues(envMerge.result[i].name)
        /\ \A name \in DeclaredNames :
              \E i \in 1..Len(envMerge.result) : envMerge.result[i].name = name
        /\ SelectSeq(envMerge.result, IsUndeclared)
              = SelectSeq(envMerge.env, IsUndeclared)

(* ------------------- claims on the error paths of a tick --------------- *)
\* the errors a tick returns because a helper failed
HelperErrors ==
    {"template validation failed", "failed to ensure PVC exists",
     "failed to ensure deployment exists", "failed to ensure service exists",
     "failed to get deployment", "failed to get service",
     "access provisioning failed", "access cleanup failed", "spec update failed"}

\* C18: a tick that returns an error of a failed helper (template
\* validation, PVC, deployment or service ensure or delete, access
\* provisioning or cleanup, the idle-driven spec update) together with a
\* requeue has called UpdateErrorStatus, the status update that describes
\* the failure.
C18_ErrorStatusBeforeErrorRequeue ==
    (/\ last.err \in HelperErrors
     /\ last.requeue # NoRequeue) =>
        Called(last.log, "UpdateErrorStatus")

(* -------------------- claims on re-running the Stopped path ------------ *)
\* the tick that just returned ended in the terminal Stopped result
EndedStopped ==
    /\ last.obs.path = "Stopped"
    /\ last.requeue = NoRequeue
    /\ last.err = NoError
AllAbsent ==
    /\ cluster.deployment = "absent"
    /\ cluster.service = "absent"
    /\ cluster.access = "absent"

\* C19: a Stopped-path tick that runs after a tick that ended in the
\* terminal Stopped result, with the deployment, the service and the access
\* resources absent, requests no deletion, records no event, leaves the
\* stored workspace as it is and ends in the terminal Stopped result again.
C19_StoppedRerunIsIdempotent ==
    [][(/\ EndedStopped
        /\ AllAbsent
        /\ last'.obs.path = "Stopped") =>
           /\ cluster' = cluster
           /\ ws' = ws
           /\ ~Called(last'.log, "Event:WorkspaceStopped")
           /\ last'.requeue = NoRequeue
           /\ last'.err = NoError]_vars

(* ----------------------- claims on Spec.DesiredStatus ------------------ *)
\* C20: a reconcile tick changes the stored Spec.DesiredStatus only when its
\* idle handling decided to stop the workspace, and then only to Stopped:
\* a tick whose idle handling is disabled, not due, or found the timeout not
\* exceeded leaves DesiredStatus as it was, and no tick sets it to Running.
C20_DesiredStatusOnlyStoppedByIdle ==
    last.obs.path # "" =>
        /\ ws.desired # last.desired =>
              /\ ws.desired = "Stopped"
              /\ last.obs.path = "Running"
              /\ last.obs.stop = "true"
              /\ Succeeded("client.Update")
        /\ last.obs.stop # "true" => ws.desired = last.desired

C20_Witness ==
    /\ last.obs.path = "Running"
    /\ last.obs.stop = "true"
    /\ Succeeded("client.Update")
    /\ last.desired \in {"", "Running"}
    /\ ws.desired = "Stopped"

(* --------------------- claims on the path to Running ------------------- *)
\* the workspace of the scenario: no TemplateRef, idle shutdown not enabled;
\* the tick ran the Running path and returned no error
PlainRunningTick ==
    /\ last.obs.path = "Running"
    /\ ~ws.templateRef
    /\ ws.idle # "enabled"
    /\ last.err = NoError
ComputeObservedReady == last.obs.deploymentReady /\ last.obs.serviceReady

\* C21: for a workspace with no TemplateRef and idle shutdown not enabled, a
\* Running-path tick that returns no error and finds compute not ready has
\* ensured the PVC, the deployment and the service in that order, recorded
\* DeploymentName and ServiceName, marked Starting and requeues at
\* PollRequeueDelay; one that finds the deployment available and the service
\* present has marked Running and returns no requeue.
C21_StartingThenRunning ==
    PlainRunningTick =>
        /\ Before(last.log, "EnsurePVCExists", "EnsureDeploymentExists")
        /\ Before(last.log, "EnsureDeploymentExists", "EnsureServiceExists")
        /\ ~ComputeObservedReady =>
              /\ last.obs.namesRecorded
              /\ Succeeded("UpdateStartingStatus")
              /\ ~Called(last.log, "UpdateRunningStatus")
              /\ last.requeue = PollRequeueDelay
        /\ ComputeObservedReady =>
              /\ Succeeded("UpdateRunningStatus")
              /\ ~Called(last.log, "UpdateStartingStatus")
              /\ last.requeue = NoRequeue

C21_Witness ==
    /\ PlainRunningTick
    /\ ComputeObservedReady
    /\ Succeeded("UpdateRunningStatus")
    /\ last.requeue = NoRequeue
    /\ cluster.deployment = "available"

(* ------------------------ claims on the idle stop ---------------------- *)
\* the tick that just returned decided the idle stop and persisted it
IdleStopPersisted ==
    /\ last.obs.path = "Running"
    /\ last.obs.stop = "true"
    /\ Succeeded("client.Update")

\* C22: a check tick that finds the activity older than the timeout flips
\* DesiredStatus to Stopped and returns a result that requests the next
\* tick; the tick after it dispatches to the Stopped path and requests the
\* deletion of the access resources and of the deployment, and of the
\* service once the deployment request was accepted.
C22_IdleStopDrivesTeardown ==
    [][/\ IdleStopPersisted' =>
            /\ ws'.desired = "Stopped"
            /\ last'.requeue # NoRequeue
       /\ (IdleStopPersisted /\ last'.obs.path # "") =>
            /\ last'.obs.path = "Stopped"
            /\ Before(last'.log, "ReconcileAccessForDesiredStoppedStatus",
                      "EnsureDeploymentDeleted")
            /\ last'.err # "failed to get deployment" =>
                  Called(last'.log, "EnsureServiceDeleted")]_vars

(* ------------------------- claims on the dispatch ---------------------- *)
ResourceOps ==
    {"EnsurePVCExists", "EnsureDeploymentExists", "EnsureServiceExists",
     "EnsureDeploymentDeleted", "EnsureServiceDeleted",
     "ReconcileAccessForDesiredStoppedStatus",
     "ReconcileAccessForDesiredRunningStatus"}

\* C23: a tick on a workspace whose DesiredStatus is unset or Running runs
\* the Running path, one whose DesiredStatus is Stopped runs the Stopped
\* path, and one with any other value attempts the Error status update as
\* its only call and returns the unknown-status error with a requeue at
\* LongRequeueDelay.
C23_DispatchOnDesiredStatus ==
    last.obs.path # "" =>
        /\ last.desired \in {"", "Running"} =>
              /\ last.obs.path = "Running"
              /\ last.log[1].op \in {"ValidateAndResolveTemplate", "EnsurePVCExists"}
        /\ last.desired = "Stopped" =>
              /\ last.obs.path = "Stopped"
              /\ last.log[1].op = "ReconcileAccessForDesiredStoppedStatus"
        /\ last.desired \notin {"", "Running", "Stopped"} =>
              /\ last.obs.path = "Unknown"
              /\ Len(last.log) = 1
              /\ last.log[1].op = "UpdateErrorStatus"
              /\ \A i \in 1..Len(last.log) : last.log[i].op \notin ResourceOps
              /\ last.requeue = LongRequeueDelay
              /\ last.err = "unknown desired status"

C23_Witness ==
    /\ last.desired = "Paused"
    /\ last.obs.path = "Unknown"
    /\ Called(last.log, "UpdateErrorStatus")
    /\ last.requeue = LongRequeueDelay

(* ------------------ claims on the Stopped path's branches -------------- *)
\* a Stopped-path tick whose two delete requests were accepted
DeletesAccepted ==
    /\ last.obs.path = "Stopped"
    /\ last.err \notin {"failed to get deployment", "failed to get service"}
\* the error a tick returns after a status write, nil when the write succeeded
ErrAfter(op) == IF Succeeded(op) THEN NoError ELSE "status update failed"

\* C24: in a Stopped-path tick whose delete requests were accepted, exactly
\* one of deployment and service observed deleted gives the Stopping status
\* and a requeue at PollRequeueDelay, with a nil error when the write
\* succeeded; neither observed deleted gives the Error status, a requeue and
\* an error; both deleted with an access cleanup error gives the Error
\* status, a requeue and the access error, the deployment and the service
\* staying gone or deleting; both deleted, no access error and access
\* resources still there gives the Stopping status and a requeue.
C24_StoppedPathBranches ==
    DeletesAccepted =>
        /\ (last.obs.deploymentDeleted # last.obs.serviceDeleted) =>
              /\ Called(last.log, "UpdateStoppingStatus")
              /\ ~Called(last.log, "UpdateErrorStatus")
              /\ last.requeue = PollRequeueDelay
              /\ last.err = ErrAfter("UpdateStoppingStatus")
        /\ (~last.obs.deploymentDeleted /\ ~last.obs.serviceDeleted) =>
              /\ Called(last.log, "UpdateErrorStatus")
              /\ last.requeue = PollRequeueDelay
              /\ last.err = "unexpected state"
        /\ (last.obs.deploymentDeleted /\ last.obs.serviceDeleted
              /\ last.obs.accessError) =>
              /\ Called(last.log, "UpdateErrorStatus")
              /\ ~Called(last.log, "UpdateStoppedStatus")
              /\ last.requeue = PollRequeueDelay
              /\ last.err = "access cleanup failed"
              /\ cluster.deployment \in {"absent", "deleting"}
              /\ cluster.service \in {"absent", "deleting"}
        /\ (last.obs.deploymentDeleted /\ last.obs.serviceDeleted
              /\ ~last.obs.accessError /\ ~last.obs.accessResourcesDeleted) =>
              /\ Called(last.log, "UpdateStoppingStatus")
              /\ last.requeue = PollRequeueDelay
              /\ last.err = ErrAfter("UpdateStoppingStatus")

C24_Witness ==
    /\ DeletesAccepted
    /\ last.obs.deploymentDeleted
    /\ last.obs.serviceDeleted
    /\ last.obs.accessError
    /\ Called(last.log, "UpdateErrorStatus")
    /\ cluster.deployment = "deleting"

(* ------------------- claims on the Running path's chain ---------------- *)
\* a before b whenever the tick called both
InOrder(a, b) ==
    (Called(last.log, a) /\ Called(last.log, b)) => Before(last.log, a, b)
\* the tick stopped at a failure: Error status attempted, requeue at
\* PollRequeueDelay, and none of the later operations called
StoppedAtFailure(later) ==
    /\ Called(last.log, "UpdateErrorStatus")
    /\ last.requeue = PollRequeueDelay
    /\ \A op \in later : ~Called(last.log, op)
AfterService ==
    {"ReconcileAccessForDesiredRunningStatus", "UpdateStartingStatus",
     "UpdateRunningStatus"}

\* C25: the Running path validates the template, then ensures the PVC, the
\* deployment and the service in that order; a template system error or the
\* first ensure failure attempts the Error status, returns that error with a
\* requeue at PollRequeueDelay, and no later step of the chain is called.
C25_FirstFailureEndsTheChain ==
    last.obs.path = "Running" =>
        /\ InOrder("ValidateAndResolveTemplate", "EnsurePVCExists")
        /\ InOrder("EnsurePVCExists", "EnsureDeploymentExists")
        /\ InOrder("EnsureDeploymentExists", "EnsureServiceExists")
        /\ Called(last.log, "EnsureServiceExists") =>
              Called(last.log, "EnsureDeploymentExists")
        /\ Called(last.log, "EnsureDeploymentExists") =>
              Called(last.log, "EnsurePVCExists")
        /\ last.obs.template = "error" =>
              /\ last.err = "template validation failed"
              /\ StoppedAtFailure({"EnsurePVCExists", "EnsureDeploymentExists",
                                   "EnsureServiceExists"} \cup AfterService)
        /\ last.err = "failed to ensure PVC exists" =>
              StoppedAtFailure({"EnsureDeploymentExists", "EnsureServiceExists"}
                                  \cup AfterService)
        /\ last.err = "failed to ensure deployment exists" =>
              StoppedAtFailure({"EnsureServiceExists"} \cup AfterService)
        /\ last.err = "failed to ensure service exists" =>
              StoppedAtFailure(AfterService)

C25_Witness ==
    /\ last.obs.path = "Running"
    /\ last.err = "failed to ensure deployment exists"
    /\ Called(last.log, "EnsurePVCExists")
    /\ Called(last.log, "UpdateErrorStatus")

(* ---------------------- claims on the idle cadence --------------------- *)
\* the tick that just returned reached the idle handling with idle
\* shutdown enabled
ReachedIdleHandling ==
    /\ last.obs.path = "Running"
    /\ ws.idle = "enabled"
    /\ Succeeded("UpdateRunningStatus")
\* the idle check was due at instant t for the stored LastChecked
CheckDue(lastChecked, t) ==
    \/ lastChecked = {}
    \/ \E c \in lastChecked : t - c >= IdleCheckInterval

\* C26: with idle shutdown enabled, a tick calls CheckWorkspaceIdle or
\* decides a stop only if the LastChecked stored before the tick is unset or
\* at least IdleCheckInterval old at the tick's instant, and every tick that
\* reaches the idle handling without deciding a stop returns a requeue at
\* IdleCheckInterval.
C26_IdleCheckCadence ==
    [][ReachedIdleHandling' =>
          /\ (Called(last'.log, "CheckWorkspaceIdle") \/ last'.obs.stop # "none") =>
                CheckDue(ws.lastChecked, last'.at)
          /\ CheckDue(ws.lastChecked, last'.at) =>
                Called(last'.log, "CheckWorkspaceIdle")
          /\ last'.obs.stop # "true" =>
                /\ last'.requeue = IdleRequeueDelay
                /\ last'.err = NoError]_vars

C26_Witness ==
    /\ ReachedIdleHandling
    /\ ws.lastChecked # {}
    /\ ~CheckDue(ws.lastChecked, last.at)
    /\ ~Called(last.log, "CheckWorkspaceIdle")
    /\ last.requeue = IdleRequeueDelay

(* -------------------- claims on the stored idle status ----------------- *)
\* C27: a tick whose idle probe succeeded leaves the stored LastChecked at
\* the instant of the probe, whether or not LastActivity changed (unless the
\* status update it attempted failed, which leaves the workspace as it was),
\* and changes the stored LastActivity only to a probed value different from
\* the stored one.
C27_LastCheckedAlwaysRefreshed ==
    [][(ReachedIdleHandling' /\ last'.obs.probe = "ok") =>
          /\ \/ ws'.lastChecked = {last'.at}
             \/ /\ Called(last'.log, "Status.Update")
                /\ ws'.lastChecked = ws.lastChecked
                /\ ws'.lastActivity = ws.lastActivity
          /\ ws'.lastActivity # ws.lastActivity =>
                Called(last'.log, "Status.Update")]_vars

(* --------------------- claims on setupSidecarContainer ----------------- *)
\* the errors of the registration and of the steps after it
LaterSidecarErrors ==
    {"failed to execute SSM registration script",
     "failed to extract managed instance ID", "failed to create marker file"}

\* C28: a SetupContainers call that ran the registration exec has, before
\* it, created the activation and then made the status update that records
\* the SSMActivation; so a call that returns the error of the registration
\* or of a later sidecar step has made that status update, and the update
\* is made only for an activation the call created.
C28_ActivationRecordedBeforeRegistration ==
    returned.done =>
        LET log == returned.inv.log
        IN /\ Called(log, "Exec:register") =>
                 /\ Before(log, "CreateActivation", "Status:SSMActivation")
                 /\ Before(log, "Status:SSMActivation", "Exec:register")
           /\ returned.ret \in LaterSidecarErrors =>
                 Called(log, "Status:SSMActivation")
           /\ Called(log, "Status:SSMActivation") =>
                 Before(log, "CreateActivation", "Status:SSMActivation")

C28_Witness ==
    /\ returned.done
    /\ returned.ret = "failed to execute SSM registration script"
    /\ Before(returned.inv.log, "Status:SSMActivation", "Exec:register")
    /\ ~Called(returned.inv.log, "Status:SSMManagedInstance")

(* -------------------- claims on setupWorkspaceContainer ---------------- *)
\* the call returned without any setup call because the stored counts equal
\* the counts of the pod, which is still as the call saw it
NothingToSetUp ==
    /\ returned.done
    /\ ReadState(returned.inv, FALSE)
    /\ returned.inv.log = <<Call("Exec:readState")>>
    /\ returned.inv.pod = pod
    /\ returned.inv.read.sidecarRestartCount = pod.sidecar.restartCount
    /\ returned.inv.read.workspaceRestartCount = pod.workspace.restartCount

\* C29: the listener start is executed only by a call that saw the
\* workspace container Running, and a need for workspace setup found while
\* the container was not Running is met by a later call.  As a state
\* predicate: a call that finds nothing to set up for a pod whose sidecar is
\* registered and whose workspace container is Running finds the listener
\* started in that container.
C29_ListenerStartedOnceRunning ==
    /\ returned.done =>
          (Called(returned.inv.log, "Exec:startServer") =>
              /\ returned.inv.needWorkspaceSetup
              /\ IsContainerRunning(returned.inv.pod, "workspace"))
    /\ (/\ NothingToSetUp
        /\ registered
        /\ IsContainerRunning(pod, "workspace")) =>
          listening

(* ------------------------ claims on the exec calls --------------------- *)
Words(run) == UNION {{run[i].cmd[k] : k \in 1..Len(run[i].cmd)} : i \in 1..Len(run)}

\* C30: two runs of SetupContainers that differ only in the activation id
\* and code issue the same exec calls to the same containers with the same
\* command words; no command word is a credential, and the only stdin that
\* is not empty is that of the registration exec, which holds the run's
\* activation id and code.
C30_CredentialsOnlyOnStdin ==
    execs.done =>
        /\ Len(execs.runA) = Len(execs.runB)
        /\ \A i \in 1..Len(execs.runA) :
              /\ execs.runA[i].cmd = execs.runB[i].cmd
              /\ execs.runA[i].container = execs.runB[i].container
              /\ execs.runA[i].stdin # <<>> =>
                    /\ execs.runA[i] = RegisterExec(execs.idA, execs.codeA, execs.region)
                    /\ execs.runA[i].stdin = <<execs.idA, execs.codeA>>
                    /\ execs.runB[i].stdin = <<execs.idB, execs.codeB>>
        /\ Words(execs.runA) \cap (ActivationIds \cup ActivationCodes) = {}
        /\ Words(execs.runB) \cap (ActivationIds \cup ActivationCodes) = {}

C30_Witness ==
    /\ execs.done
    /\ execs.idA # execs.idB
    /\ execs.codeA # execs.codeB
    /\ \E i \in 1..Len(execs.runA) :
          /\ execs.runA[i].stdin = <<execs.idA, execs.codeA>>
          /\ execs.runB[i].stdin = <<execs.idB, execs.codeB>>
          /\ execs.runA[i].cmd = execs.runB[i].cmd

(* ------------ claims on the deployment spec modifications -------------- *)
\* the lists an access strategy declares for the pod template
DeclaredMods ==
    [volumes |-> envMerge.mods.volumes,
     volumeMounts |-> envMerge.mods.volumeMounts,
     containers |-> envMerge.mods.additionalContainers]
\* list by list, the first record followed by the second
Concat(spec, more) ==
    [volumes |-> spec.volumes \o more.volumes,
     volumeMounts |-> spec.volumeMounts \o more.volumeMounts,
     containers |-> spec.containers \o more.containers]

\* C31: a successful ApplyAccessStrategyToDeployment with an access strategy
\* leaves the pod's volumes, the primary container's volume mounts and the
\* pod's containers as the lists they were, followed by the strategy's extra
\* volumes, extra volume mounts and additional containers in declaration
\* order; a second call with the same strategy appends every declared item
\* once more, whether or not the list already holds it.
C31_ModificationsAppendedWithoutDedup ==
    /\ (/\ envMerge.done
        /\ envMerge.strategy
        /\ envMerge.err = NoError) =>
           envMerge.out = Concat(PodSpecOf(envMerge), DeclaredMods)
    /\ (/\ envMerge.again.done
        /\ envMerge.strategy
        /\ envMerge.again.err = NoError) =>
           envMerge.again.out
              = Concat(Concat(PodSpecOf(envMerge), DeclaredMods), DeclaredMods)

\* a strategy whose three lists each hold an entry that the pod template
\* already has, applied twice to a pod template with entries in every list
C31_Witness ==
    /\ envMerge.again.done
    /\ envMerge.again.err = NoError
    /\ envMerge.volumes = <<"vol2", "vol1">>
    /\ envMerge.mods.volumes = <<"vol1", "vol2">>
    /\ envMerge.mods.volumeMounts = <<"mnt1", "mnt1">>
    /\ envMerge.mods.additionalContainers = <<"side1">>
    /\ envMerge.again.out.volumes
          = <<"vol2", "vol1", "vol1", "vol2", "vol1", "vol2">>
    /\ envMerge.again.out.containers = <<"main", "side2", "side1", "side1", "side1">>

\* C38: when ApplyAccessStrategyToDeployment returns an error on a non-nil
\* deployment, the primary container's env, the pod's volumes, the primary
\* container's volume mounts and the pod's containers are what they were
\* before the call.
C38_FailedApplyLeavesDeploymentUnchanged ==
    (/\ envMerge.done
     /\ envMerge.deployment
     /\ envMerge.err # NoError) =>
        /\ envMerge.result = envMerge.env
        /\ envMerge.out = PodSpecOf(envMerge)

\* the second template fails after the first resolved to a value that differs
\* from the one the container has, and the strategy declares modifications
C38_Witness ==
    /\ envMerge.done
    /\ envMerge.deployment
    /\ envMerge.err # NoError
    /\ envMerge.env = <<EnvVar("A", "old1")>>
    /\ envMerge.mergeEnv = <<EnvTemplate("A", "static"), EnvTemplate("B", "{{")>>
    /\ envMerge.mods.volumes # <<>>
    /\ envMerge.mods.volumeMounts # <<>>
    /\ envMerge.mods.additionalContainers # <<>>

(* ------------- claims on concurrent SetupContainers calls -------------- *)
\* the state the call read shows no restart of either container
NoRestartSeen(c) ==
    /\ c.read.kind = "state"
    /\ c.pod.sidecar.restartCount <= c.read.sidecarRestartCount
    /\ c.pod.workspace.restartCount <= c.read.workspaceRestartCount

\* C32: nothing but the state it read keeps a SetupContainers call from
\* setting up: a call that returned after its read without setting up read
\* setupInProgress=true or a state that shows no restart, whatever other
\* calls are in flight for the pod, and a call that goes on to setup read no
\* in-progress marker; so two calls that read before either wrote the marker
\* both set up, and each makes its own CreateActivation.
C32_ExclusionOnlyByMarkerRead ==
    /\ (/\ returned.done
        /\ HasRead(returned.inv)
        /\ returned.inv.pc = "read") =>
           \/ ReadState(returned.inv, TRUE)
           \/ ReadState(returned.inv, FALSE) /\ NoRestartSeen(returned.inv)
    /\ \A c \in InFlight :
          c.pc \in {"mark", "setup"} =>
             /\ ~ReadState(c, TRUE)
             /\ c.needSidecarSetup \/ c.needWorkspaceSetup

\* a call returned with its CreateActivation made on a pod that never
\* restarted, while another call that read no state is setting the sidecar up
C32_Witness ==
    /\ returned.done
    /\ returned.inv.read.kind = "absent"
    /\ Called(returned.inv.log, "CreateActivation")
    /\ returned.ret = NoSetupError
    /\ broker.activations = 1
    /\ pod.sidecar.restartCount = 0
    /\ \E c \in InFlight :
          /\ c.pc = "setup"
          /\ c.read.kind = "absent"
          /\ c.needSidecarSetup
          /\ ~c.needCleanup

MarkerSet == stateFile.kind = "state" /\ stateFile.setupInProgress
\* the marker is set and the call that wrote it is over: no call is between
\* its own marker write and its final write
MarkerLeftBehind ==
    /\ MarkerSet
    /\ \A c \in InFlight : c.pc = "read"
\* the step is not damage done to the file on the volume
FileNotDamaged == stateFile'.kind # "corrupt"

FromController ==
    admission.user
       = <<"system", "serviceaccount", admission.controllerNamespace,
           "jupyter-k8s-controller-manager">>

\* C33: Handle allows a pod exec request exactly when the user is
\* system:serviceaccount:<controllerNamespace>:jupyter-k8s-controller-manager,
\* the pod was fetched and it carries the workspace-name label; a request
\* of another user is denied with no Get of the pod, and a pod that cannot
\* be fetched gives an error response that does not allow.
C33_ExecOnlyFromControllerToWorkspacePods ==
    admission.done =>
        /\ admission.allowed <=>
              /\ FromController
              /\ admission.get = "found"
              /\ LabelWorkspaceName \in admission.labels
        /\ admission.allowed <=> admission.result = "Allowed"
        /\ ~FromController =>
              /\ admission.result = "Denied"
              /\ ~Called(admission.log, "Client.Get")
        /\ (FromController /\ admission.get # "found") =>
              /\ admission.result = "Errored"
              /\ Called(admission.log, "Client.Get")

\* the controller's service account is allowed to exec into a workspace pod
C33_Witness ==
    /\ admission.done
    /\ admission.allowed
    /\ FromController
    /\ admission.labels = {LabelWorkspaceName, "app"}
    /\ Called(admission.log, "Client.Get")

(* ---------------- claims on WorkspaceConnectionStorage.Create ---------- *)
\* a URL generation was invoked
GeneratedURL ==
    \/ Called(connection.log, "generateVSCodeURLFromStorage")
    \/ Called(connection.log, "generateWebUIURLFromStorage")
\* CheckWorkspaceAccess gave no error and a result that is found and allowed
AccessGranted ==
    /\ ~connection.access.err
    /\ ~connection.access.notFound
    /\ connection.access.allowed

\* C34: Create returns a connection URL only with a nil error, after the
\* request passed validation and CheckWorkspaceAccess returned without error
\* a result that is found and allowed, with the validation before the access
\* check and the access check before the URL generation; when the access
\* check errors, reports not-found or reports not-allowed, Create returns an
\* error and no URL, and neither URL generation is invoked.
C34_UrlOnlyAfterAccessGranted ==
    connection.done =>
        /\ (connection.url # "" \/ GeneratedURL) =>
              /\ connection.valid
              /\ AccessGranted
              /\ Before(connection.log, "validateWorkspaceConnectionRequest",
                        "CheckWorkspaceAccess")
              /\ Before(connection.log, "CheckWorkspaceAccess",
                        IF connection.type = ConnectionTypeVSCodeRemote
                        THEN "generateVSCodeURLFromStorage"
                        ELSE "generateWebUIURLFromStorage")
        /\ connection.url # "" => connection.err = NoError
        /\ ~AccessGranted =>
              /\ connection.err # NoError
              /\ connection.url = ""
              /\ ~GeneratedURL

\* a VSCode connection URL was returned to a user taken from the context
C34_Witness ==
    /\ connection.done
    /\ connection.url = ConnectionTypeVSCodeRemote
    /\ connection.err = NoError
    /\ connection.user = "user-1"
    /\ Called(connection.log, "generateVSCodeURLFromStorage")

(* ---------------- claims on the namespaced routes ---------------------- *)
\* the request path is <prefix>/<ns>/<name> with a namespace the server accepts
NamespacedRequest ==
    /\ route.namespaceOk
    /\ Len(route.tail) = 2
    /\ route.tail[1] \in {"default", "team-a"}
LastSegment == route.tail[Len(route.tail)]

\* C40: a request <prefix>/<ns>/<name> for a name the discovery endpoint
\* advertises reaches a registered handler, and a request with an accepted
\* namespace whose last path segment is not a registered resource gets 404.
C40_AdvertisedNamesAreRoutable ==
    route.done =>
        /\ (NamespacedRequest /\ LastSegment \in AdvertisedResources)
              => route.status = "handled"
        /\ (route.namespaceOk /\ LastSegment \notin DOMAIN resourceHandlers)
              => route.status = "404"

\* the part of C40 that the routes do keep: a handler is reached only for a
\* registered last segment, every other accepted request gets 404
C40_OnlyRegisteredSegmentsHandled ==
    route.done =>
        /\ route.status = "handled" <=>
              (route.namespaceOk /\ LastSegment \in DOMAIN resourceHandlers)
        /\ (route.namespaceOk /\ LastSegment \notin DOMAIN resourceHandlers)
              => route.status = "404"

\* a request for the advertised connectionaccessreviews was answered with 404
C40_AdvertisedNameNotFound ==
    /\ route.done
    /\ NamespacedRequest
    /\ LastSegment = "connectionaccessreviews"
    /\ route.status = "404"

(* ---------------- claims on a failing idle probe ------------------------ *)
\* the tick that just returned polled the idle endpoint and the poll failed
ProbeFailed(tick) == tick.obs.probe \in {"fail", "unparsable"}

RunningEvents ==
    Cardinality({i \in 1..Len(last.log) : last.log[i].op = "Event:WorkspaceRunning"})
\* the tick found compute ready and provisioned access without error
ReadyAndProvisioned ==
    /\ last.obs.path = "Running"
    /\ last.obs.deploymentReady
    /\ last.obs.serviceReady
    /\ ~last.obs.accessError

\* C39: a reconcile tick records the WorkspaceRunning event exactly when it
\* finds compute ready and access provisioning successful, once, after the
\* access provisioning and before the Running status update is attempted,
\* whatever the outcome of that update and whatever the workspace was before
\* the tick; no other tick records it.
C39_RunningEventOnEveryReadyTick ==
    /\ RunningEvents = IF ReadyAndProvisioned THEN 1 ELSE 0
    /\ ReadyAndProvisioned =>
          /\ Before(last.log, "ReconcileAccessForDesiredRunningStatus",
                    "Event:WorkspaceRunning")
          /\ Before(last.log, "Event:WorkspaceRunning", "UpdateRunningStatus")

\* a workspace that an earlier tick made Running and polled for idleness
\* records the event again on a tick whose Running status update fails
C39_Witness ==
    /\ RunningEvents = 1
    /\ ws.lastChecked # {}
    /\ Called(last.log, "UpdateRunningStatus")
    /\ ~Succeeded("UpdateRunningStatus")
    /\ last.err = "status update failed"
====
